---- MODULE Spec2Model ----
(***************************************************************************)
(* A model of the OpsBeacon Python SDK client (src/opsbeacon/client.py and *)
(* src/opsbeacon/exceptions.py).                                           *)
(*                                                                         *)
(* One call of a public operation is one action: the handler runs to its   *)
(* return or raise against the replies the HTTP library gives to the       *)
(* requests it issues.  The state keeps the client's configuration, the    *)
(* call in progress, the HTTP requests the call put on the wire and the    *)
(* call's outcome.                                                         *)
(*                                                                         *)
(* Python values:                                                          *)
(*   - a dict is a record; a missing key is a missing field;               *)
(*   - an Optional value is a tuple: <<>> is None, <<v>> is the value v;   *)
(*     an optional string is the string itself or the marker None;         *)
(*   - text that the code takes apart (int(), shlex.split) is a sequence   *)
(*     of one-character strings;                                           *)
(*   - a message is a sequence of its parts.                               *)
(***************************************************************************)
EXTENDS Integers, Sequences, FiniteSets, TLC

VARIABLES
    client,     \* <<>> before construction, <<config>> once constructed
    pc,         \* "idle": no call in progress; "done": a call has ended
    call,       \* the operation called and its arguments
    result,     \* how the call ended: a returned value or a raised error
    wire,       \* the HTTP requests the call issued, in order
    log,        \* the records the call emitted through the module's logger
    server,     \* the trigger the workspace holds, and the requests it has served
    callers     \* the calls in progress on that trigger: arguments, answers, outcome

vars == <<client, pc, call, result, wire, log, server, callers>>

(***************************************************************************)
(* Bounds of the model.                                                    *)
(***************************************************************************)
MaxTools == 3       \* longest tool-instance list a trigger carries
MaxTriggers == 2    \* longest list the triggers endpoint returns
MaxUuids == 2       \* how many identifiers uuid.uuid4() chooses among

(***************************************************************************)
(* Python helpers.                                                         *)
(***************************************************************************)
None == "None"

\* bool(s) for an optional string
Truthy(s) == s # None /\ s # ""

\* d.get(k, default)
Get(d, k, default) == IF k \in DOMAIN d THEN d[k] ELSE default

\* d with d[k] = v set (the key is added when missing)
Put(d, k, v) == [x \in (DOMAIN d) \cup {k} |-> IF x = k THEN v ELSE d[x]]

Range(s) == {s[i] : i \in 1..Len(s)}

\* the sequences without repetition that list exactly the elements of S:
\* the orders list(set(...)) may produce
Orderings(S) ==
    {s \in [1..Cardinality(S) -> S] : \A i, j \in 1..Cardinality(S) : i # j => s[i] # s[j]}

\* str(n) for n >= 0, as characters
DigitChar(d) == CASE d = 0 -> "0" [] d = 1 -> "1" [] d = 2 -> "2" [] d = 3 -> "3"
                  [] d = 4 -> "4" [] d = 5 -> "5" [] d = 6 -> "6" [] d = 7 -> "7"
                  [] d = 8 -> "8" [] d = 9 -> "9"

RECURSIVE IntToStr(_)
IntToStr(n) == IF n < 10 THEN <<DigitChar(n)>>
               ELSE IntToStr(n \div 10) \o <<DigitChar(n % 10)>>

IsDigit(c) == c \in {"0", "1", "2", "3", "4", "5", "6", "7", "8", "9"}

DigitVal(c) == CASE c = "0" -> 0 [] c = "1" -> 1 [] c = "2" -> 2 [] c = "3" -> 3
                 [] c = "4" -> 4 [] c = "5" -> 5 [] c = "6" -> 6 [] c = "7" -> 7
                 [] c = "8" -> 8 [] c = "9" -> 9

RECURSIVE DigitsVal(_)
DigitsVal(s) == IF s = <<>> THEN 0
                ELSE DigitsVal(SubSeq(s, 1, Len(s) - 1)) * 10 + DigitVal(s[Len(s)])

\* int(s): <<n>> when s is an optionally signed run of decimal digits,
\* <<>> when int() raises ValueError
PyInt(s) ==
    LET signed == s # <<>> /\ s[1] \in {"+", "-"}
        digits == IF signed THEN Tail(s) ELSE s
    IN  IF digits # <<>> /\ \A i \in 1..Len(digits) : IsDigit(digits[i])
        THEN <<(IF signed /\ s[1] = "-" THEN 0 - DigitsVal(digits) ELSE DigitsVal(digits))>>
        ELSE <<>>

(***************************************************************************)
(* The exception hierarchy (exceptions.py).                                *)
(***************************************************************************)
AuthenticationError(message) ==
    [type |-> "AuthenticationError", message |-> message]

APIError(message, status_code, response_body) ==
    [type |-> "APIError", message |-> message,
     status_code |-> status_code, response_body |-> response_body]

ConnectionError(message) ==
    [type |-> "ConnectionError", message |-> message]

TimeoutError(timeout) ==
    [type |-> "TimeoutError", message |-> <<"Request timed out.">>, timeout |-> timeout]

ValidationError(message, field) ==
    [type |-> "ValidationError", message |-> <<message>>, field |-> field]

ResourceNotFoundError(resource_type, resource_id) ==
    [type |-> "ResourceNotFoundError",
     message |-> <<resource_type, " '", resource_id, "' not found">>,
     resource_type |-> resource_type, resource_id |-> resource_id]

RateLimitError(retry_after) ==
    [type |-> "RateLimitError",
     message |-> <<"Rate limit exceeded. Please retry later.">>,
     status_code |-> <<429>>, response_body |-> <<>>, retry_after |-> retry_after]

CommandExecutionError(message, command, connection) ==
    [type |-> "CommandExecutionError", message |-> message,
     command |-> command, connection |-> connection]

FileOperationError(message, file_name, operation) ==
    [type |-> "FileOperationError", message |-> message,
     file_name |-> file_name, operation |-> operation]

MCPError(message, trigger_name) ==
    [type |-> "MCPError", message |-> message, trigger_name |-> trigger_name]

\* errors of other libraries that the client lets through: the ValueError of
\* int() and of shlex.split, the OSError of a file write
Foreign(type) == [type |-> type, message |-> <<type>>]

\* isinstance(e, APIError): RateLimitError is the one subclass
IsAPIError(e) == e.type \in {"APIError", "RateLimitError"}

\* str(e): APIError appends its status code when it has one
Str(e) ==
    IF IsAPIError(e) /\ e.status_code # <<>> /\ e.status_code[1] # 0
    THEN e.message \o <<" (status: ">> \o IntToStr(e.status_code[1]) \o <<")">>
    ELSE e.message

\* how a call ends
Return(value) == [raised |-> FALSE, value |-> <<value>>]
Raise(exc) == [raised |-> TRUE, exc |-> exc]

(***************************************************************************)
(* A handler is a function of its arguments and of the script: the answers *)
(* the HTTP library gives to its requests, in order.  Run against a script *)
(* that is too short it stops at the request it cannot get answered        *)
(* (Ask); otherwise it ends (Done) with its outcome, the requests it       *)
(* issued and the number of answers it used.                               *)
(***************************************************************************)
Done(out, reqs, used) == [blocked |-> FALSE, out |-> <<out>>, reqs |-> reqs, used |-> used]
Ask(reqs, used) == [blocked |-> TRUE, out |-> <<>>, reqs |-> reqs, used |-> used]

\* the part of the script a handler called after `used` answers gets
Rest(script, used) == SubSeq(script, used + 1, Len(script))

(***************************************************************************)
(* What the HTTP library answers to one request: an HTTP response, or one  *)
(* of its exceptions.  requests.exceptions: ConnectTimeout is both a       *)
(* ConnectionError and a Timeout, ReadTimeout is a Timeout, every one is   *)
(* a RequestException.                                                     *)
(***************************************************************************)
Response(status_code, headers, body) ==
    [kind |-> "response", status_code |-> status_code, headers |-> headers, body |-> body]

LibRaise(exc) == [kind |-> "exception", exc |-> exc]

LibIsConnectionError(exc) == exc \in {"ConnectionError", "ConnectTimeout"}
LibIsTimeout(exc) == exc \in {"ConnectTimeout", "ReadTimeout"}

\* a body that parses as a JSON object, and one that does not
JsonBody(obj) == [text |-> "json", parsed |-> <<obj>>]
TextBody(text) == [text |-> text, parsed |-> <<>>]

\* response.ok: raise_for_status() raises for 400 <= status < 600
Ok(response) == ~(400 <= response.status_code /\ response.status_code < 600)

(***************************************************************************)
(* OpsBeaconClient._handle_response_error: <<>> when nothing is raised,    *)
(* <<e>> when e is.                                                        *)
(***************************************************************************)
_handle_response_error(response) ==
    LET status == response.status_code
        text == <<response.body.text>>
    IN  IF status = 401
        THEN <<AuthenticationError(<<"Authentication failed. Check your API token.">>)>>
        ELSE IF status = 403
        THEN <<AuthenticationError(<<"Access forbidden. Check your API token permissions.">>)>>
        ELSE IF status = 404
        THEN <<APIError(<<"Resource not found">>, <<404>>, text)>>
        ELSE IF status = 429
        THEN LET retry_after == Get(response.headers, "Retry-After", <<>>)
             IN  IF retry_after = <<>> \/ retry_after[1] = <<>>
                 THEN <<RateLimitError(<<>>)>>
                 ELSE IF PyInt(retry_after[1]) = <<>>
                      THEN <<Foreign("ValueError")>>
                      ELSE <<RateLimitError(PyInt(retry_after[1]))>>
        ELSE IF status >= 400
        THEN LET error_msg ==
                     IF response.body.parsed # <<>>
                     THEN LET error_body == response.body.parsed[1]
                          IN  Get(error_body, "err", Get(error_body, "error", text))
                     ELSE text
             IN  <<APIError(<<"API error: ">> \o error_msg, <<status>>, text)>>
        ELSE <<>>

(***************************************************************************)
(* OpsBeaconClient.__init__ and the session it builds.                     *)
(***************************************************************************)
DEFAULT_TIMEOUT == 30

\* the session's default headers
SessionHeaders(api_token) ==
    [Authorization |-> <<"Bearer ", api_token>>,
     ContentType |-> <<"application/json">>,
     UserAgent |-> <<"OpsBeacon-Python-SDK/1.3.0">>]

\* the domain without one trailing slash, when it has one
StripOneSlash(s) == IF s # <<>> /\ s[Len(s)] = "/" THEN SubSeq(s, 1, Len(s) - 1) ELSE s

\* api_domain.rstrip("/"), the domain given as characters
RECURSIVE RStripSlash(_)
RStripSlash(s) ==
    IF s # <<>> /\ s[Len(s)] = "/" THEN RStripSlash(SubSeq(s, 1, Len(s) - 1)) ELSE s

__init__(api_domain, api_token, timeout, debug) ==
    IF api_domain = <<>>
    THEN Raise(ValidationError("api_domain is required", "api_domain"))
    ELSE IF ~Truthy(api_token)
    THEN Raise(ValidationError("api_token is required", "api_token"))
    ELSE Return([api_domain |-> RStripSlash(api_domain), _api_token |-> api_token,
                 timeout |-> timeout, debug |-> debug,
                 headers |-> SessionHeaders(api_token)])

base_url(self) == <<"h", "t", "t", "p", "s", ":", "/", "/">> \o self.api_domain

(***************************************************************************)
(* OpsBeaconClient._request.  The request that goes on the wire carries    *)
(* the session's headers merged with the per-request ones (Session.request *)
(* is handed headers=headers, the caller's extra headers).                 *)
(***************************************************************************)
NoJson == <<>>
NoFiles == <<>>
NoHeaders == <<>>

\* k.lower() of a header name; the names of the model are written without
\* their hyphen
Lower(k) ==
    CASE k = "Authorization" -> "authorization"
      [] k = "AUTHORIZATION" -> "authorization"
      [] k = "ContentType" -> "contenttype"
      [] k = "UserAgent" -> "useragent"
      [] k = "XTrace" -> "xtrace"
      [] OTHER -> k

HttpRequest(self, method, endpoint, json_data, files, headers) ==
    [method |-> method, url |-> [base |-> base_url(self), path |-> endpoint],
     json |-> json_data,
     files |-> files,
     headers |-> IF headers = <<>> THEN self.headers
                 ELSE [k \in {h \in DOMAIN self.headers :
                                 \A x \in DOMAIN headers[1] : Lower(x) # Lower(h)}
                              \cup (DOMAIN headers[1]) |->
                          IF k \in DOMAIN headers[1] THEN headers[1][k] ELSE self.headers[k]],
     timeout |-> self.timeout]

\* _request answered by the first answer of the script: the response is
\* returned, or a typed error is raised
_request(self, method, endpoint, json_data, files, headers, script) ==
    LET req == HttpRequest(self, method, endpoint, json_data, files, headers)
        reply == script[1]
    IN  IF script = <<>> THEN Ask(<<req>>, 0)
        ELSE IF reply.kind = "exception"
        THEN IF LibIsConnectionError(reply.exc)
             THEN Done(Raise(ConnectionError(<<"Failed to connect to ">>)), <<req>>, 1)
             ELSE IF LibIsTimeout(reply.exc)
             THEN Done(Raise(TimeoutError(<<self.timeout>>)), <<req>>, 1)
             ELSE Done(Raise(APIError(<<"Request failed: ", reply.exc>>, <<>>, <<>>)),
                       <<req>>, 1)
        ELSE IF ~Ok(reply) /\ _handle_response_error(reply) # <<>>
             THEN Done(Raise(_handle_response_error(reply)[1]), <<req>>, 1)
             ELSE Done(Return(reply), <<req>>, 1)

\* the headers _request hands to _log_request: a copy of the session's
\* headers, updated with the caller's, without Content-Type for a file upload
request_headers(self, files, headers) ==
    LET given == IF headers = <<>> THEN <<>> ELSE headers[1]
        names == ((DOMAIN self.headers) \cup (DOMAIN given))
                     \ (IF files # NoFiles THEN {"ContentType"} ELSE {})
    IN  [k \in names |-> IF k \in DOMAIN given THEN given[k] ELSE self.headers[k]]

Mask == <<"***">>

safe_headers_exact_name(headers) ==
    [k \in DOMAIN headers |-> IF k = "Authorization" THEN Mask ELSE headers[k]]

safe_headers(headers) ==
    [k \in DOMAIN headers |-> IF Lower(k) = "authorization" THEN Mask ELSE headers[k]]

\* the records _log_request emits
_log_request(self, method, url, headers, json_data) ==
    IF self.debug
    THEN <<[level |-> "debug", msg |-> "HTTP Request", method |-> method, url |-> url],
           [level |-> "debug", msg |-> "Headers", headers |-> safe_headers(headers)]>>
         \o (IF json_data # <<>> /\ DOMAIN json_data[1] # {}
             THEN <<[level |-> "debug", msg |-> "Body", body |-> json_data[1]]>>
             ELSE <<>>)
    ELSE <<>>

\* the records _log_response emits
_log_response(self, response) ==
    IF self.debug
    THEN <<[level |-> "debug", msg |-> "HTTP Response", status |-> response.status_code],
           [level |-> "debug", msg |-> "Body", body |-> response.body]>>
    ELSE <<>>

\* the records one _request emits: the request, then the response it got or
\* the failure of the HTTP library; `answer` is <<>> or <<reply>>
_request_log(self, method, endpoint, json_data, files, headers, answer) ==
    _log_request(self, method, [base |-> base_url(self), path |-> endpoint],
                 request_headers(self, files, headers), json_data)
    \o (IF answer = <<>> THEN <<>>
        ELSE IF answer[1].kind = "exception"
        THEN <<[level |-> "error",
                msg |-> IF LibIsConnectionError(answer[1].exc) THEN "Connection error"
                        ELSE IF LibIsTimeout(answer[1].exc) THEN "Request timeout"
                        ELSE "Request error",
                exc |-> answer[1].exc]>>
        ELSE _log_response(self, answer[1]))

RECURSIVE Flat(_)
Flat(seqs) == IF seqs = <<>> THEN <<>> ELSE Head(seqs) \o Flat(Tail(seqs))

\* the records a call emits: those of each request it made through _request
\* (requests made with the HTTP library directly, which have no base, emit
\* none); script[i] answers reqs[i]
Emitted(self, reqs, headers, script) ==
    Flat([i \in 1..Len(reqs) |->
            IF reqs[i].url.base = <<>> THEN <<>>
            ELSE _request_log(self, reqs[i].method, reqs[i].url.path, reqs[i].json,
                              reqs[i].files, headers,
                              IF i <= Len(script) THEN <<script[i]>> ELSE <<>>)])

\* response.json() of a returned response
Json(r) == r.out[1].value[1].body.parsed[1]

\* the handler's step r ended by raising
Raised(r) == ~r.blocked /\ r.out[1].raised

\* `r` with its error replaced by `exc` when the error is an APIError
\* (except APIError as e: raise exc from e)
ExceptAPIError(r, exc) ==
    IF Raised(r) /\ IsAPIError(r.out[1].exc) THEN Done(Raise(exc), r.reqs, r.used) ELSE r

\* `r` ended with the value `value` when it returned, unchanged when it raised
\* or is waiting for an answer
Then(r, value) ==
    IF r.blocked \/ Raised(r) THEN r ELSE Done(Return(value), r.reqs, r.used)

(***************************************************************************)
(* Users, groups, policies: one request each, after validation.            *)
(***************************************************************************)
\* a list endpoint: response.json().get(field, [])
ListOf(self, endpoint, field, script) ==
    LET r == _request(self, "GET", endpoint, NoJson, NoFiles, NoHeaders, script)
    IN  IF r.blocked \/ Raised(r) THEN r ELSE Then(r, Get(Json(r), field, <<>>))

users(self, script) == ListOf(self, <<"/workspace/v2/users">>, "users", script)

groups(self, script) == ListOf(self, <<"/workspace/v2/policy/group">>, "groups", script)

policies(self, script) == ListOf(self, <<"/workspace/v2/policy">>, "policies", script)

\* add_user and add_group: `data` is the dict given, <<>> for an empty one
add_user(self, user, script) ==
    IF user = <<>>
    THEN Done(Raise(ValidationError("User data is required", "user")), <<>>, 0)
    ELSE LET r == _request(self, "POST", <<"/workspace/v2/users">>, user, NoFiles,
                           NoHeaders, script)
         IN  IF r.blocked \/ Raised(r) THEN r ELSE Then(r, Json(r))

add_group(self, group, script) ==
    IF group = <<>>
    THEN Done(Raise(ValidationError("Group data is required", "group")), <<>>, 0)
    ELSE LET r == _request(self, "POST", <<"/workspace/v2/policy/group">>, group, NoFiles,
                           NoHeaders, script)
         IN  IF r.blocked \/ Raised(r) THEN r ELSE Then(r, Json(r))

delete_user(self, user_id, script) ==
    IF ~Truthy(user_id)
    THEN Done(Raise(ValidationError("user_id is required", "user_id")), <<>>, 0)
    ELSE Then(_request(self, "DELETE", <<"/workspace/v2/users/", user_id>>, NoJson, NoFiles,
                       NoHeaders, script), TRUE)

delete_group(self, group_name, script) ==
    IF ~Truthy(group_name)
    THEN Done(Raise(ValidationError("group_name is required", "group_name")), <<>>, 0)
    ELSE Then(_request(self, "DELETE", <<"/workspace/v2/policy/group/", group_name>>, NoJson,
                       NoFiles, NoHeaders, script), TRUE)

create_policy(self, name, description, commands, connections, script) ==
    IF ~Truthy(name)
    THEN Done(Raise(ValidationError("name is required", "name")), <<>>, 0)
    ELSE LET payload == [name |-> name, description |-> description,
                         commands |-> IF commands = <<>> THEN <<>> ELSE commands[1],
                         connections |-> IF connections = <<>> THEN <<>> ELSE connections[1]]
             r == _request(self, "POST", <<"/workspace/v2/policy">>, <<payload>>, NoFiles,
                           NoHeaders, script)
         IN  IF r.blocked \/ Raised(r) THEN r ELSE Then(r, Json(r))

delete_policy(self, name, script) ==
    IF ~Truthy(name)
    THEN Done(Raise(ValidationError("name is required", "name")), <<>>, 0)
    ELSE Then(_request(self, "DELETE", <<"/workspace/v2/policy/", name>>, NoJson, NoFiles,
                       NoHeaders, script), TRUE)

(***************************************************************************)
(* Files.  The answers of the local file system (does the path exist, did  *)
(* the write succeed) are arguments.                                       *)
(***************************************************************************)
\* a request made with the requests module directly, outside the session
DirectRequest(self, method, url, json_data, headers) ==
    [method |-> method, url |-> [base |-> <<>>, path |-> <<url>>], json |-> json_data,
     files |-> NoFiles, headers |-> headers, timeout |-> self.timeout]

\* file_content: <<>> or <<content>>; input_file: <<>> or <<path>>;
\* exists: Path(input_file).exists()
file_upload(self, file_content, file_name, input_file, exists, script) ==
    IF file_content # <<>> /\ ~Truthy(file_name)
    THEN Done(Raise(ValidationError("file_name is required when uploading content",
                                    "file_name")), <<>>, 0)
    ELSE IF file_content = <<>> /\ input_file = <<>>
    THEN Done(Raise(ValidationError("Either file_content or input_file must be provided",
                                    None)), <<>>, 0)
    ELSE IF file_content = <<>> /\ ~exists
    THEN Done(Raise(FileOperationError(<<"File not found: ", input_file[1]>>, input_file[1],
                                       "upload")), <<>>, 0)
    ELSE LET actual_file_name ==
                 IF file_content # <<>> THEN file_name
                 ELSE IF Truthy(file_name) THEN file_name ELSE input_file[1]
             files == [name |-> actual_file_name,
                       mime |-> IF file_content # <<>> THEN "text/csv"
                                ELSE "application/octet-stream"]
             r == _request(self, "POST", <<"/workspace/v2/files">>, NoJson, <<files>>,
                           NoHeaders, script)
         IN  IF r.blocked \/ Raised(r)
             THEN ExceptAPIError(r, FileOperationError(
                      <<"Failed to upload file: ">> \o (IF Raised(r) THEN Str(r.out[1].exc) ELSE <<>>),
                      file_name, "upload"))
             ELSE Then(r, r.out[1].value[1].body.text)

get_file_download_url(self, file_id, script) ==
    IF ~Truthy(file_id)
    THEN Done(Raise(ValidationError("file_id is required", "file_id")), <<>>, 0)
    ELSE LET r == _request(self, "GET", <<"/workspace/v2/file-url/", file_id>>, NoJson,
                           NoFiles, NoHeaders, script)
         IN  IF r.blocked \/ Raised(r) THEN r
             ELSE IF ~Get(Json(r), "success", FALSE)
             THEN Done(Raise(FileOperationError(Get(Json(r), "err", <<"Unknown error">>),
                                                file_id, "get_download_url")),
                       r.reqs, r.used)
             ELSE Then(r, Json(r).url)

\* written: dest.write_bytes() succeeded (an OSError otherwise)
file_download(self, file_name, written, script) ==
    IF ~Truthy(file_name)
    THEN Done(Raise(ValidationError("file_name is required", "file_name")), <<>>, 0)
    ELSE LET u == get_file_download_url(self, file_name, script)
         IN  IF u.blocked \/ Raised(u) THEN u
             ELSE LET req == DirectRequest(self, "GET", u.out[1].value[1], NoJson, <<>>)
                      reqs == Append(u.reqs, req)
                      rest == Rest(script, u.used)
                      failed == FileOperationError(<<"Failed to download file">>, file_name,
                                                   "download")
                  IN  IF rest = <<>> THEN Ask(reqs, u.used)
                      ELSE IF rest[1].kind = "exception" \/ ~Ok(rest[1])
                      THEN Done(Raise(failed), reqs, u.used + 1)
                      ELSE IF ~written
                      THEN Done(Raise(Foreign("OSError")), reqs, u.used + 1)
                      ELSE Done(Return(TRUE), reqs, u.used + 1)

(***************************************************************************)
(* Command execution.                                                      *)
(***************************************************************************)
\* shlex.split(s) in POSIX mode for text made of letters, spaces and quotes:
\* the tokens, or <<>> for the ValueError of an unclosed quotation.
\* The result is <<tokens>> so that no token at all, <<<<>>>>, differs from it.
RECURSIVE ShlexScan(_, _, _, _, _)
ShlexScan(s, token, inToken, quote, tokens) ==
    IF s = <<>>
    THEN IF quote # "" THEN <<>>
         ELSE <<(IF inToken THEN Append(tokens, token) ELSE tokens)>>
    ELSE LET c == Head(s)
         IN  IF quote # ""
             THEN IF c = quote THEN ShlexScan(Tail(s), token, TRUE, "", tokens)
                  ELSE ShlexScan(Tail(s), Append(token, c), TRUE, quote, tokens)
             ELSE IF c \in {"'", "\""}
             THEN ShlexScan(Tail(s), token, TRUE, c, tokens)
             ELSE IF c = " "
             THEN ShlexScan(Tail(s), <<>>, FALSE, "",
                            IF inToken THEN Append(tokens, token) ELSE tokens)
             ELSE ShlexScan(Tail(s), Append(token, c), TRUE, "", tokens)

\* the text taken as one token, without any splitting
ShlexWhole(s) == <<<<s>>>>

ShlexSplit(s) == ShlexScan(s, <<>>, FALSE, "", <<>>)

\* args: [kind |-> "none"], [kind |-> "str", val |-> text] or
\* [kind |-> "list", val |-> tokens]
run(self, command_text, connection, command, args, script) ==
    IF ~Truthy(command_text) /\ ~(Truthy(command) /\ Truthy(connection))
    THEN Done(Raise(ValidationError(
                  "Either command_text or both connection and command are required", None)),
              <<>>, 0)
    ELSE IF ~Truthy(command_text) /\ args.kind = "str" /\ args.val # <<>>
            /\ ShlexSplit(args.val) = <<>>
    THEN Done(Raise(Foreign("ValueError")), <<>>, 0)
    ELSE LET args_list == IF args.kind = "str"
                          THEN IF args.val # <<>> THEN ShlexSplit(args.val)[1] ELSE <<>>
                          ELSE IF args.kind = "list" THEN args.val ELSE <<>>
             body == IF Truthy(command_text) THEN [commandLine |-> command_text]
                     ELSE [command |-> command, connection |-> connection,
                           arguments |-> args_list]
             r == _request(self, "POST", <<"/trigger/v1/api">>, <<body>>, NoFiles, NoHeaders,
                           script)
         IN  IF r.blocked \/ Raised(r)
             THEN ExceptAPIError(r, CommandExecutionError(
                      <<"Command execution failed: ">> \o (IF Raised(r) THEN Str(r.out[1].exc) ELSE <<>>),
                      IF Truthy(command) THEN command ELSE command_text, connection))
             ELSE IF r.out[1].value[1].body.parsed = <<>>
             THEN Done(Raise(Foreign("JSONDecodeError")), r.reqs, r.used)
             ELSE Then(r, Json(r))

(***************************************************************************)
(* Triggers.  A trigger is a dict {name, kind, description, triggerUrl,    *)
(* commands, connections, policies, mcpTriggerInfo}, any key of which may  *)
(* be missing; a tool instance is {instanceId, templateId, overrides}.     *)
(* The visible name of a tool (overrides.name) is a sequence of text       *)
(* parts, as "tool_N" is put together from two.                            *)
(***************************************************************************)
\* handler step `second` run after `first` has used its answers
After(first, second) ==
    [second EXCEPT !.reqs = first.reqs \o @, !.used = first.used + @]

\* the triggers of the kind, the last of them first
RECURSIVE OfKindLastFirst(_, _)
OfKindLastFirst(ts, kind) ==
    IF ts = <<>> THEN <<>>
    ELSE IF Get(Head(ts), "kind", None) = kind
    THEN OfKindLastFirst(Tail(ts), kind) \o <<Head(ts)>>
    ELSE OfKindLastFirst(Tail(ts), kind)

\* [t for t in triggers if t.get("kind") == kind]
RECURSIVE OfKind(_, _)
OfKind(ts, kind) ==
    IF ts = <<>> THEN <<>>
    ELSE IF Get(Head(ts), "kind", None) = kind THEN <<Head(ts)>> \o OfKind(Tail(ts), kind)
         ELSE OfKind(Tail(ts), kind)

triggers(self, kind, script) ==
    LET r == _request(self, "GET", <<"/workspace/v2/triggers">>, NoJson, NoFiles, NoHeaders,
                      script)
    IN  IF r.blocked \/ Raised(r) THEN r
        ELSE IF Truthy(kind) THEN Then(r, OfKind(Get(Json(r), "triggers", <<>>), kind))
        ELSE Then(r, Get(Json(r), "triggers", <<>>))

mcp_triggers(self, script) == triggers(self, "mcp", script)

\* the scan that keeps the last item of the name instead of returning the first
RECURSIVE LastNamed(_, _)
LastNamed(items, name) ==
    IF items = <<>> THEN <<>>
    ELSE IF LastNamed(Tail(items), name) # <<>> THEN LastNamed(Tail(items), name)
    ELSE IF Get(Head(items), "name", None) = name THEN <<Head(items)>>
         ELSE <<>>

\* for item in items: if item.get("name") == name: return item
\* <<item>> for the first such item, <<>> when the loop ends without one
RECURSIVE FirstNamed(_, _)
FirstNamed(items, name) ==
    IF items = <<>> THEN <<>>
    ELSE IF Get(Head(items), "name", None) = name THEN <<Head(items)>>
         ELSE FirstNamed(Tail(items), name)

\* the scan of a list fetched by name's fallback: `listed` is the outcome of
\* self.triggers() or self.policies()
ScanFor(resource_type, name, listed) ==
    IF listed.blocked \/ Raised(listed) THEN listed
    ELSE IF FirstNamed(listed.out[1].value[1], name) # <<>>
    THEN Then(listed, FirstNamed(listed.out[1].value[1], name)[1])
    ELSE Done(Raise(ResourceNotFoundError(resource_type, name)), listed.reqs, listed.used)

\* get_trigger from the answer r to its GET by name on
get_trigger_answered(self, name, script, r) ==
    IF r.blocked THEN r
    ELSE IF ~Raised(r) THEN Then(r, Json(r))
    ELSE IF ~IsAPIError(r.out[1].exc) THEN r
    ELSE ScanFor("Trigger", name, After(r, triggers(self, None, Rest(script, r.used))))

get_trigger(self, name, script) ==
    IF ~Truthy(name)
    THEN Done(Raise(ValidationError("name is required", "name")), <<>>, 0)
    ELSE get_trigger_answered(self, name, script,
                              _request(self, "GET", <<"/workspace/v2/triggers/", name>>,
                                       NoJson, NoFiles, NoHeaders, script))

\* get_mcp_trigger_url with no `except ResourceNotFoundError`
url_of_fetched_uncaught(g) ==
    IF g.blocked \/ Raised(g) THEN g
    ELSE IF Get(g.out[1].value[1], "kind", None) = "mcp"
    THEN Then(g, Get(g.out[1].value[1], "triggerUrl", None))
    ELSE Then(g, None)

\* get_mcp_trigger_url from `trigger = self.get_trigger(name)` on; g is the
\* outcome of that fetch
url_of_fetched(g) ==
    IF g.blocked THEN g
    ELSE IF Raised(g)
    THEN IF g.out[1].exc.type = "ResourceNotFoundError"
         THEN Done(Return(None), g.reqs, g.used)
         ELSE g
    ELSE IF Get(g.out[1].value[1], "kind", None) = "mcp"
    THEN Then(g, Get(g.out[1].value[1], "triggerUrl", None))
    ELSE Then(g, None)

get_mcp_trigger_url(self, name, script) ==
    IF ~Truthy(name)
    THEN Done(Raise(ValidationError("name is required", "name")), <<>>, 0)
    ELSE url_of_fetched(get_trigger(self, name, script))

\* get_policy from the answer r to its GET by name on
get_policy_answered(self, name, script, r) ==
    IF r.blocked THEN r
    ELSE IF ~Raised(r) THEN Then(r, Json(r))
    ELSE IF ~IsAPIError(r.out[1].exc) THEN r
    ELSE ScanFor("Policy", name, After(r, policies(self, Rest(script, r.used))))

get_policy(self, name, script) ==
    IF ~Truthy(name)
    THEN Done(Raise(ValidationError("name is required", "name")), <<>>, 0)
    ELSE get_policy_answered(self, name, script,
                             _request(self, "GET", <<"/workspace/v2/policy/", name>>,
                                      NoJson, NoFiles, NoHeaders, script))

\* delete_trigger with the check of the name made after the request
delete_trigger_checks_late(self, name, script) ==
    LET r == _request(self, "DELETE", <<"/workspace/v2/triggers/", name>>, NoJson, NoFiles,
                      NoHeaders, script)
    IN  IF r.blocked THEN r
        ELSE IF ~Truthy(name)
        THEN Done(Raise(ValidationError("name is required", "name")), r.reqs, r.used)
        ELSE Then(r, TRUE)

delete_trigger(self, name, script) ==
    IF ~Truthy(name)
    THEN Done(Raise(ValidationError("name is required", "name")), <<>>, 0)
    ELSE Then(_request(self, "DELETE", <<"/workspace/v2/triggers/", name>>, NoJson, NoFiles,
                       NoHeaders, script), TRUE)

\* the non-empty overrides[key] of the tool instances, as the set that
\* list(set(...)) is built from
\* the values collected with `if key in overrides` in place of `if overrides.get(key)`
OverridesPresent(tool_instances, key) ==
    {Get(tool_instances[i], "overrides", <<>>)[key] :
        i \in {j \in 1..Len(tool_instances) :
                 key \in DOMAIN Get(tool_instances[j], "overrides", <<>>)}}

OverridesOf(tool_instances, key) ==
    {Get(tool_instances[i], "overrides", <<>>)[key] :
        i \in {j \in 1..Len(tool_instances) :
                 /\ key \in DOMAIN Get(tool_instances[j], "overrides", <<>>)
                 /\ Truthy(Get(tool_instances[j], "overrides", <<>>)[key])}}

\* list(set(...)): the elements of S in an order that the code does not fix;
\* it depends on the interpreter's string hashing, which `hash_seed` stands for
Reverse(s) == [i \in 1..Len(s) |-> s[Len(s) + 1 - i]]

ListOfSet(S, hash_seed) ==
    LET listed == CHOOSE s \in Orderings(S) : TRUE
    IN  IF hash_seed = 0 THEN listed ELSE Reverse(listed)

\* tool_instances, policy_names: <<>> for None, <<list>> otherwise
create_mcp_trigger(self, name, description, tool_instances, policy_names, hash_seed, script) ==
    IF ~Truthy(name)
    THEN Done(Raise(ValidationError("name is required", "name")), <<>>, 0)
    ELSE LET tools == IF tool_instances = <<>> THEN <<>> ELSE tool_instances[1]
             payload == [name |-> name, description |-> description, kind |-> "mcp",
                         commands |-> ListOfSet(OverridesOf(tools, "command"), hash_seed),
                         connections |-> ListOfSet(OverridesOf(tools, "connection"), hash_seed),
                         policies |-> IF policy_names = <<>> THEN <<>> ELSE policy_names[1],
                         mcpTriggerInfo |-> [toolInstances |-> tools]]
             r == _request(self, "POST", <<"/workspace/v2/triggers">>, <<payload>>, NoFiles,
                           NoHeaders, script)
         IN  IF r.blocked THEN r
             ELSE IF Raised(r)
             THEN ExceptAPIError(r, MCPError(<<"Failed to create MCP trigger: ">>
                                             \o Str(r.out[1].exc), name))
             ELSE IF Truthy(Get(Json(r), "url", None))
             THEN Then(r, [success |-> TRUE, name |-> name, url |-> Json(r).url,
                           apiToken |-> Get(Json(r), "apiToken", None),
                           message |-> <<"MCP trigger '", name, "' created successfully">>])
             ELSE IF Get(Json(r), "err", <<>>) # <<>>
             THEN Done(Raise(MCPError(Json(r).err, name)), r.reqs, r.used)
             ELSE Then(r, Json(r))

\* update_existing without the check of the kind of the fetched trigger
update_existing_any_kind(self, name, description, tool_instances, hash_seed, script, g) ==
    IF g.blocked \/ Raised(g) THEN g ELSE
    LET existing == g.out[1].value[1]
        info == Get(existing, "mcpTriggerInfo", <<>>)
        payload ==
            [name |-> name, kind |-> "mcp",
             description |-> IF description # None THEN description
                             ELSE Get(existing, "description", ""),
             commands |-> IF tool_instances # <<>>
                          THEN ListOfSet(OverridesOf(tool_instances[1], "command"), hash_seed)
                          ELSE Get(existing, "commands", <<>>),
             connections |-> IF tool_instances # <<>>
                             THEN ListOfSet(OverridesOf(tool_instances[1], "connection"),
                                            hash_seed)
                             ELSE Get(existing, "connections", <<>>),
             mcpTriggerInfo |-> IF tool_instances # <<>>
                                THEN Put(info, "toolInstances", tool_instances[1])
                                ELSE info]
        r == After(g, _request(self, "PUT", <<"/workspace/v2/triggers/", name>>,
                               <<payload>>, NoFiles, NoHeaders, Rest(script, g.used)))
    IN  IF r.blocked THEN r
        ELSE IF Raised(r)
        THEN ExceptAPIError(r, MCPError(<<"Failed to update MCP trigger: ">>
                                        \o Str(r.out[1].exc), name))
        ELSE Then(r, Json(r))

\* update_mcp_trigger that sends the fetched tool list whatever list it is given
update_existing_keeps_tools(self, name, description, tool_instances, hash_seed, script, g) ==
    IF g.blocked \/ Raised(g) THEN g ELSE
    LET existing == g.out[1].value[1]
        info == Get(existing, "mcpTriggerInfo", <<>>)
        payload ==
            [name |-> name, kind |-> "mcp",
             description |-> IF description # None THEN description
                             ELSE Get(existing, "description", ""),
             commands |-> IF tool_instances # <<>>
                          THEN ListOfSet(OverridesOf(tool_instances[1], "command"), hash_seed)
                          ELSE Get(existing, "commands", <<>>),
             connections |-> IF tool_instances # <<>>
                             THEN ListOfSet(OverridesOf(tool_instances[1], "connection"),
                                            hash_seed)
                             ELSE Get(existing, "connections", <<>>),
             mcpTriggerInfo |-> IF tool_instances # <<>>
                                THEN info
                                ELSE info]
        r == After(g, _request(self, "PUT", <<"/workspace/v2/triggers/", name>>,
                               <<payload>>, NoFiles, NoHeaders, Rest(script, g.used)))
    IN  IF Get(existing, "kind", None) # "mcp"
        THEN Done(Raise(MCPError(<<"'", name, "' is not an MCP trigger">>, name)),
                  g.reqs, g.used)
        ELSE IF r.blocked THEN r
        ELSE IF Raised(r)
        THEN ExceptAPIError(r, MCPError(<<"Failed to update MCP trigger: ">>
                                        \o Str(r.out[1].exc), name))
        ELSE Then(r, Json(r))

\* update_mcp_trigger that takes an empty tool list for no tool list
\* (`if tool_instances:` in place of `if tool_instances is not None:`)
update_existing_unless_empty(self, name, description, tool_instances, hash_seed, script, g) ==
    IF g.blocked \/ Raised(g) THEN g ELSE
    LET existing == g.out[1].value[1]
        info == Get(existing, "mcpTriggerInfo", <<>>)
        payload ==
            [name |-> name, kind |-> "mcp",
             description |-> IF description # None THEN description
                             ELSE Get(existing, "description", ""),
             commands |-> IF (tool_instances # <<>> /\ tool_instances[1] # <<>>)
                          THEN ListOfSet(OverridesOf(tool_instances[1], "command"), hash_seed)
                          ELSE Get(existing, "commands", <<>>),
             connections |-> IF (tool_instances # <<>> /\ tool_instances[1] # <<>>)
                             THEN ListOfSet(OverridesOf(tool_instances[1], "connection"),
                                            hash_seed)
                             ELSE Get(existing, "connections", <<>>),
             mcpTriggerInfo |-> IF (tool_instances # <<>> /\ tool_instances[1] # <<>>)
                                THEN Put(info, "toolInstances", tool_instances[1])
                                ELSE info]
        r == After(g, _request(self, "PUT", <<"/workspace/v2/triggers/", name>>,
                               <<payload>>, NoFiles, NoHeaders, Rest(script, g.used)))
    IN  IF Get(existing, "kind", None) # "mcp"
        THEN Done(Raise(MCPError(<<"'", name, "' is not an MCP trigger">>, name)),
                  g.reqs, g.used)
        ELSE IF r.blocked THEN r
        ELSE IF Raised(r)
        THEN ExceptAPIError(r, MCPError(<<"Failed to update MCP trigger: ">>
                                        \o Str(r.out[1].exc), name))
        ELSE Then(r, Json(r))

\* update_mcp_trigger from `existing = self.get_trigger(name)` on; g is the
\* outcome of that fetch
update_existing(self, name, description, tool_instances, hash_seed, script, g) ==
    IF g.blocked \/ Raised(g) THEN g ELSE
    LET existing == g.out[1].value[1]
        info == Get(existing, "mcpTriggerInfo", <<>>)
        payload ==
            [name |-> name, kind |-> "mcp",
             description |-> IF description # None THEN description
                             ELSE Get(existing, "description", ""),
             commands |-> IF tool_instances # <<>>
                          THEN ListOfSet(OverridesOf(tool_instances[1], "command"), hash_seed)
                          ELSE Get(existing, "commands", <<>>),
             connections |-> IF tool_instances # <<>>
                             THEN ListOfSet(OverridesOf(tool_instances[1], "connection"),
                                            hash_seed)
                             ELSE Get(existing, "connections", <<>>),
             mcpTriggerInfo |-> IF tool_instances # <<>>
                                THEN Put(info, "toolInstances", tool_instances[1])
                                ELSE info]
        r == After(g, _request(self, "PUT", <<"/workspace/v2/triggers/", name>>,
                               <<payload>>, NoFiles, NoHeaders, Rest(script, g.used)))
    IN  IF Get(existing, "kind", None) # "mcp"
        THEN Done(Raise(MCPError(<<"'", name, "' is not an MCP trigger">>, name)),
                  g.reqs, g.used)
        ELSE IF r.blocked THEN r
        ELSE IF Raised(r)
        THEN ExceptAPIError(r, MCPError(<<"Failed to update MCP trigger: ">>
                                        \o Str(r.out[1].exc), name))
        ELSE Then(r, Json(r))

update_mcp_trigger(self, name, description, tool_instances, hash_seed, script) ==
    IF ~Truthy(name)
    THEN Done(Raise(ValidationError("name is required", "name")), <<>>, 0)
    ELSE update_existing(self, name, description, tool_instances, hash_seed, script,
                         get_trigger(self, name, script))

\* the new tool named after the length of the list before the append minus one
NewToolCountedFromZero(tool_config, instance_id, position) ==
    [instanceId |-> instance_id, templateId |-> instance_id,
     overrides |-> [name |-> Get(tool_config, "name", <<"tool_">> \o IntToStr(position - 1)),
                    description |-> Get(tool_config, "description", ""),
                    connection |-> Get(tool_config, "connection", ""),
                    command |-> Get(tool_config, "command", ""),
                    argumentOverrides |-> Get(tool_config, "arguments", <<>>)]]

\* tool_config: a dict with any of name, description, connection, command,
\* arguments (a dict, written as its sequence of items); instance_id: the
\* value of str(uuid.uuid4())
NewTool(tool_config, instance_id, position) ==
    [instanceId |-> instance_id, templateId |-> instance_id,
     overrides |-> [name |-> Get(tool_config, "name", <<"tool_">> \o IntToStr(position)),
                    description |-> Get(tool_config, "description", ""),
                    connection |-> Get(tool_config, "connection", ""),
                    command |-> Get(tool_config, "command", ""),
                    argumentOverrides |-> Get(tool_config, "arguments", <<>>)]]

\* add_tool_to_mcp_trigger that writes the trigger it fetched, without the
\* second fetch of update_mcp_trigger
add_tool_writes_the_fetched(self, trigger_name, tool_config, instance_id, hash_seed, script, g) ==
    IF g.blocked \/ Raised(g) THEN g
    ELSE update_existing(self, trigger_name, None,
                         <<Append(Get(Get(g.out[1].value[1], "mcpTriggerInfo", <<>>),
                                      "toolInstances", <<>>),
                                  NewTool(tool_config[1], instance_id,
                                          Len(Get(Get(g.out[1].value[1], "mcpTriggerInfo", <<>>),
                                                  "toolInstances", <<>>)) + 1))>>,
                         hash_seed, script, g)

\* tool_config: <<>> for an empty dict, <<dict>> otherwise
\* add_tool_to_mcp_trigger from `trigger = self.get_trigger(trigger_name)` on;
\* g is the outcome of that fetch
add_tool_to_fetched(self, trigger_name, tool_config, instance_id, hash_seed, script, g) ==
    IF g.blocked \/ Raised(g) THEN g
    ELSE IF Get(g.out[1].value[1], "kind", None) # "mcp"
    THEN Done(Raise(MCPError(<<"'", trigger_name, "' is not an MCP trigger">>,
                             trigger_name)), g.reqs, g.used)
    ELSE LET mcp_info == Get(g.out[1].value[1], "mcpTriggerInfo", <<>>)
             tool_instances == Get(mcp_info, "toolInstances", <<>>)
             extended == Append(tool_instances,
                                NewTool(tool_config[1], instance_id,
                                        Len(tool_instances) + 1))
         IN  After(g, update_mcp_trigger(self, trigger_name, None, <<extended>>,
                                         hash_seed, Rest(script, g.used)))

add_tool_to_mcp_trigger(self, trigger_name, tool_config, instance_id, hash_seed, script) ==
    IF ~Truthy(trigger_name)
    THEN Done(Raise(ValidationError("trigger_name is required", "trigger_name")), <<>>, 0)
    ELSE IF tool_config = <<>>
    THEN Done(Raise(ValidationError("tool_config is required", "tool_config")), <<>>, 0)
    ELSE add_tool_to_fetched(self, trigger_name, tool_config, instance_id, hash_seed, script,
                             get_trigger(self, trigger_name, script))

\* the filter that drops the first tool of the name only
RECURSIVE WithoutFirstTool(_, _)
WithoutFirstTool(tool_instances, tool_name) ==
    IF tool_instances = <<>> THEN <<>>
    ELSE LET overrides == Get(Head(tool_instances), "overrides", <<>>)
         IN  IF "name" \in DOMAIN overrides /\ overrides.name = tool_name
             THEN Tail(tool_instances)
             ELSE <<Head(tool_instances)>> \o WithoutFirstTool(Tail(tool_instances), tool_name)

\* [t for t in tool_instances if t.get("overrides", {}).get("name") != tool_name]
RECURSIVE WithoutTool(_, _)
WithoutTool(tool_instances, tool_name) ==
    IF tool_instances = <<>> THEN <<>>
    ELSE LET overrides == Get(Head(tool_instances), "overrides", <<>>)
         IN  IF "name" \in DOMAIN overrides /\ overrides.name = tool_name
             THEN WithoutTool(Tail(tool_instances), tool_name)
             ELSE <<Head(tool_instances)>> \o WithoutTool(Tail(tool_instances), tool_name)

\* remove_tool_from_mcp_trigger from `trigger = self.get_trigger(trigger_name)`
\* on; g is the outcome of that fetch
remove_tool_from_fetched(self, trigger_name, tool_name, hash_seed, script, g) ==
    IF g.blocked \/ Raised(g) THEN g
    ELSE IF Get(g.out[1].value[1], "kind", None) # "mcp"
    THEN Done(Raise(MCPError(<<"'", trigger_name, "' is not an MCP trigger">>,
                             trigger_name)), g.reqs, g.used)
    ELSE LET mcp_info == Get(g.out[1].value[1], "mcpTriggerInfo", <<>>)
             tool_instances == Get(mcp_info, "toolInstances", <<>>)
             updated_tools == WithoutTool(tool_instances, tool_name)
         IN  IF Len(updated_tools) = Len(tool_instances)
             THEN Done(Raise(ResourceNotFoundError("Tool", tool_name)), g.reqs, g.used)
             ELSE After(g, update_mcp_trigger(self, trigger_name, None, <<updated_tools>>,
                                              hash_seed, Rest(script, g.used)))

remove_tool_from_mcp_trigger(self, trigger_name, tool_name, hash_seed, script) ==
    IF ~Truthy(trigger_name)
    THEN Done(Raise(ValidationError("trigger_name is required", "trigger_name")), <<>>, 0)
    ELSE IF tool_name = <<>>
    THEN Done(Raise(ValidationError("tool_name is required", "tool_name")), <<>>, 0)
    ELSE remove_tool_from_fetched(self, trigger_name, tool_name, hash_seed, script,
                                  get_trigger(self, trigger_name, script))

(***************************************************************************)
(* The MCP protocol test: three JSON-RPC requests posted with the requests *)
(* module directly, under the trigger's own bearer token.                  *)
(***************************************************************************)
JsonRpc(method, params, id) ==
    [jsonrpc |-> "2.0", method |-> method, params |-> params, id |-> id]

\* requests.post(...) followed by raise_for_status() raised a RequestException
PostFailed(reply) == reply.kind = "exception" \/ ~Ok(reply)

\* str(e) of that exception
PostError(reply) ==
    IF reply.kind = "exception" THEN [error |-> <<reply.exc>>]
    ELSE [error |-> <<"HTTPError ">> \o IntToStr(reply.status_code)]

\* the search for the named tool that finds none
NoneNamed(tools, tool_name) == <<>>

\* next((t for t in tools if t["name"] == tool_name), None)
RECURSIVE NextNamed(_, _)
NextNamed(tools, tool_name) ==
    IF tools = <<>> THEN <<>>
    ELSE IF Head(tools).name = tool_name THEN <<Head(tools)>>
         ELSE NextNamed(Tail(tools), tool_name)

\* the success flag computed as `"error" not in results["execution"]`
HasNoError(execution) == "error" \notin DOMAIN execution

\* results["success"] = "result" in results["execution"]
HasResult(execution) == "result" \in DOMAIN execution

\* test_mcp_protocol without the `return results` after a failed initialize
test_mcp_protocol_goes_on(self, mcp_url, api_token, tool_name, script) ==
    IF ~Truthy(mcp_url)
    THEN Done(Raise(ValidationError("mcp_url is required", "mcp_url")), <<>>, 0)
    ELSE IF ~Truthy(api_token)
    THEN Done(Raise(ValidationError("api_token is required", "api_token")), <<>>, 0)
    ELSE LET headers == [Authorization |-> <<"Bearer ", api_token>>,
                         ContentType |-> <<"application/json">>]
             results == [initialize |-> <<>>, tools |-> <<>>, execution |-> <<>>,
                         success |-> FALSE]
             init_request ==
                 DirectRequest(self, "POST", mcp_url,
                     <<JsonRpc("initialize",
                               [protocolVersion |-> "0.1.0", capabilities |-> <<>>,
                                clientInfo |-> [name |-> "OpsBeacon Python SDK",
                                                version |-> "1.3.0"]], 1)>>, headers)
             list_request ==
                 DirectRequest(self, "POST", mcp_url, <<JsonRpc("tools/list", <<>>, 2)>>,
                               headers)
             tools_response == script[2].body.parsed[1]
             tools == IF "result" \in DOMAIN tools_response
                         /\ "tools" \in DOMAIN tools_response.result
                      THEN tools_response.result.tools ELSE <<>>
             named == IF Truthy(tool_name) THEN NextNamed(tools, tool_name) ELSE <<>>
             tool_to_execute == IF named # <<>> THEN named[1] ELSE tools[1]
             exec_request ==
                 DirectRequest(self, "POST", mcp_url,
                     <<JsonRpc("tools/call",
                               [name |-> tool_to_execute.name, arguments |-> <<>>], 3)>>,
                     headers)
             execution == script[3].body.parsed[1]
             initialize == IF PostFailed(script[1]) THEN PostError(script[1])
                           ELSE script[1].body.parsed[1]
         IN  IF Len(script) < 1 THEN Ask(<<init_request>>, 0)
             ELSE IF Len(script) < 2 THEN Ask(<<init_request, list_request>>, 1)
             ELSE IF PostFailed(script[2])
             THEN Done(Return([results EXCEPT !.initialize = <<initialize>>,
                                              !.tools = <<PostError(script[2])>>]),
                       <<init_request, list_request>>, 2)
             ELSE IF tools = <<>>
             THEN Done(Return([results EXCEPT
                                  !.initialize = <<initialize>>,
                                  !.tools = <<tools_response>>,
                                  !.execution = <<[message |-> "No tools available to execute"]>>]),
                       <<init_request, list_request>>, 2)
             ELSE IF Len(script) < 3 THEN Ask(<<init_request, list_request, exec_request>>, 2)
             ELSE IF PostFailed(script[3])
             THEN Done(Return([results EXCEPT
                                  !.initialize = <<initialize>>,
                                  !.tools = <<tools_response>>,
                                  !.execution = <<PostError(script[3])>>]),
                       <<init_request, list_request, exec_request>>, 3)
             ELSE Done(Return([results EXCEPT
                                  !.initialize = <<initialize>>,
                                  !.tools = <<tools_response>>,
                                  !.execution = <<execution>>,
                                  !.success = HasResult(execution)]),
                       <<init_request, list_request, exec_request>>, 3)

test_mcp_protocol(self, mcp_url, api_token, tool_name, script) ==
    IF ~Truthy(mcp_url)
    THEN Done(Raise(ValidationError("mcp_url is required", "mcp_url")), <<>>, 0)
    ELSE IF ~Truthy(api_token)
    THEN Done(Raise(ValidationError("api_token is required", "api_token")), <<>>, 0)
    ELSE LET headers == [Authorization |-> <<"Bearer ", api_token>>,
                         ContentType |-> <<"application/json">>]
             results == [initialize |-> <<>>, tools |-> <<>>, execution |-> <<>>,
                         success |-> FALSE]
             init_request ==
                 DirectRequest(self, "POST", mcp_url,
                     <<JsonRpc("initialize",
                               [protocolVersion |-> "0.1.0", capabilities |-> <<>>,
                                clientInfo |-> [name |-> "OpsBeacon Python SDK",
                                                version |-> "1.3.0"]], 1)>>, headers)
             list_request ==
                 DirectRequest(self, "POST", mcp_url, <<JsonRpc("tools/list", <<>>, 2)>>,
                               headers)
             tools_response == script[2].body.parsed[1]
             tools == IF "result" \in DOMAIN tools_response
                         /\ "tools" \in DOMAIN tools_response.result
                      THEN tools_response.result.tools ELSE <<>>
             named == IF Truthy(tool_name) THEN NextNamed(tools, tool_name) ELSE <<>>
             tool_to_execute == IF named # <<>> THEN named[1] ELSE tools[1]
             exec_request ==
                 DirectRequest(self, "POST", mcp_url,
                     <<JsonRpc("tools/call",
                               [name |-> tool_to_execute.name, arguments |-> <<>>], 3)>>,
                     headers)
             execution == script[3].body.parsed[1]
         IN  IF Len(script) < 1 THEN Ask(<<init_request>>, 0)
             ELSE IF PostFailed(script[1])
             THEN Done(Return([results EXCEPT !.initialize = <<PostError(script[1])>>]),
                       <<init_request>>, 1)
             ELSE IF Len(script) < 2 THEN Ask(<<init_request, list_request>>, 1)
             ELSE IF PostFailed(script[2])
             THEN Done(Return([results EXCEPT !.initialize = <<script[1].body.parsed[1]>>,
                                              !.tools = <<PostError(script[2])>>]),
                       <<init_request, list_request>>, 2)
             ELSE IF tools = <<>>
             THEN Done(Return([results EXCEPT
                                  !.initialize = <<script[1].body.parsed[1]>>,
                                  !.tools = <<tools_response>>,
                                  !.execution = <<[message |-> "No tools available to execute"]>>]),
                       <<init_request, list_request>>, 2)
             ELSE IF Len(script) < 3 THEN Ask(<<init_request, list_request, exec_request>>, 2)
             ELSE IF PostFailed(script[3])
             THEN Done(Return([results EXCEPT
                                  !.initialize = <<script[1].body.parsed[1]>>,
                                  !.tools = <<tools_response>>,
                                  !.execution = <<PostError(script[3])>>]),
                       <<init_request, list_request, exec_request>>, 3)
             ELSE Done(Return([results EXCEPT
                                  !.initialize = <<script[1].body.parsed[1]>>,
                                  !.tools = <<tools_response>>,
                                  !.execution = <<execution>>,
                                  !.success = HasResult(execution)]),
                       <<init_request, list_request, exec_request>>, 3)

(***************************************************************************)
(* The environment: what the server and the HTTP library can answer.       *)
(***************************************************************************)
PlainHeaders == [ContentType |-> <<"application/json">>]

RetryAfter(text) == ("Retry-After" :> <<text>>) @@ PlainHeaders

\* every way a request can fail
FailReplies ==
    {LibRaise(e) : e \in {"ConnectionError", "ConnectTimeout", "ReadTimeout",
                          "TooManyRedirects"}}
    \cup {Response(status, PlainHeaders, TextBody("denied")) : status \in {401, 403, 404}}
    \cup {Response(429, h, TextBody("slow down")) :
            h \in {PlainHeaders, RetryAfter(<<"6", "0">>), RetryAfter(<<"s", "o", "o", "n">>),
                   RetryAfter(<<>>)}}
    \cup {Response(500, PlainHeaders, b) :
            b \in {JsonBody([err |-> <<"boom">>]), JsonBody([error |-> <<"bad">>]),
                   JsonBody([detail |-> <<"none">>]), TextBody("Internal Server Error")}}

\* one failure for each error type _request raises
CoreFailReplies ==
    {LibRaise("ConnectionError"), LibRaise("ReadTimeout"),
     Response(401, PlainHeaders, TextBody("denied")),
     Response(404, PlainHeaders, TextBody("denied")),
     Response(429, PlainHeaders, TextBody("slow down")),
     Response(500, PlainHeaders, JsonBody([err |-> <<"boom">>]))}

\* a failure that _request reports as a ConnectionError and one it reports
\* as an APIError
TwoFailReplies ==
    {LibRaise("ConnectionError"), Response(404, PlainHeaders, TextBody("denied"))}

\* the elements of `all` at the positions `chosen`, in their order
Chosen(all, chosen) ==
    LET upTo[k \in 0..Len(all)] ==
            IF k = 0 THEN <<>>
            ELSE IF k \in chosen THEN Append(upTo[k - 1], all[k]) ELSE upTo[k - 1]
    IN  upTo[Len(all)]

\* the lists of at most n elements of `all`, each in the order of `all`
ListsUpTo(all, n) ==
    {Chosen(all, chosen) : chosen \in {c \in SUBSET (1..Len(all)) : Cardinality(c) <= n}}

ToolA ==
    [instanceId |-> "i1", templateId |-> "i1",
     overrides |-> [name |-> <<"a">>, description |-> "first", connection |-> "x",
                    command |-> "c1", argumentOverrides |-> <<>>]]

\* a second tool of the same name, on the same connection
ToolB ==
    [instanceId |-> "i2", templateId |-> "i2",
     overrides |-> [name |-> <<"a">>, description |-> "second", connection |-> "x",
                    command |-> "c2", argumentOverrides |-> <<>>]]

ToolC ==
    [instanceId |-> "i3", templateId |-> "i3",
     overrides |-> [name |-> <<"b">>, description |-> "third", connection |-> "y",
                    command |-> "c1", argumentOverrides |-> <<>>]]

\* a tool with no name, an empty command and no connection
ToolD ==
    [instanceId |-> "i4", templateId |-> "i4",
     overrides |-> [description |-> "bare", command |-> ""]]

ToolLists == ListsUpTo(<<ToolA, ToolD, ToolB, ToolC>>, MaxTools)

McpTrigger(name, tool_instances) ==
    [name |-> name, kind |-> "mcp", description |-> "old",
     triggerUrl |-> "https://mcp.example/t", commands |-> <<"c0">>,
     connections |-> <<"x0">>, policies |-> <<"p1">>,
     mcpTriggerInfo |-> [toolInstances |-> tool_instances, serverName |-> "srv"]]

\* the triggers the server can hold under `name`
TriggerPool(name) ==
    {McpTrigger(name, l) : l \in ToolLists}
    \cup {[name |-> name, kind |-> "webHook", description |-> "hook",
           commands |-> <<"c0">>, connections |-> <<"x0">>, policies |-> <<"p1">>],
          [name |-> name],
          [name |-> name, kind |-> "mcp"],
          [name |-> name, kind |-> "mcp", policies |-> <<"p1">>,
           mcpTriggerInfo |-> [serverName |-> "srv"]]}

\* the entries the triggers list can hold
ListedTriggers ==
    <<[kind |-> "cron"],
      McpTrigger("t2", <<>>),
      McpTrigger("t1", <<ToolA, ToolC>>),
      [name |-> "t1", kind |-> "webHook", description |-> "hook"]>>

PolicyPool == <<[name |-> "p2"], [name |-> "p1", description |-> "one"], [name |-> "p1"]>>

\* the methods of the MCP server's tools
McpTools == <<[name |-> "a"], [name |-> "b", description |-> "first b"], [name |-> "b"]>>

\* the bodies a successful response to `req` can carry
OkBodies(req) ==
    LET path == req.url.path[1]
    IN  IF req.url.base = <<>> /\ req.method = "GET"
        THEN {TextBody("file content")}
        ELSE IF req.url.base = <<>>
        THEN IF req.json[1].method = "initialize"
             THEN {JsonBody([result |-> [protocolVersion |-> "0.1.0"]])}
             ELSE IF req.json[1].method = "tools/list"
             THEN {JsonBody([result |-> [tools |-> l]]) : l \in ListsUpTo(McpTools, MaxTools)}
                  \cup {JsonBody([result |-> [other |-> <<>>]]),
                        JsonBody([error |-> <<"no such method">>])}
             ELSE {JsonBody([result |-> [content |-> <<"done">>]]),
                   JsonBody([error |-> <<"tool failed">>]),
                   JsonBody([result |-> [content |-> <<>>], error |-> <<"partial">>])}
        ELSE IF path = "/workspace/v2/triggers/" /\ req.method = "GET"
        THEN {JsonBody(t) : t \in TriggerPool(req.url.path[2])}
        ELSE IF path = "/workspace/v2/triggers/" /\ req.method = "PUT"
        THEN {JsonBody([name |-> req.url.path[2], kind |-> "mcp"])}
        ELSE IF path = "/workspace/v2/triggers" /\ req.method = "GET"
        THEN {JsonBody([triggers |-> l]) : l \in ListsUpTo(ListedTriggers, MaxTriggers)}
             \cup {JsonBody([count |-> 0])}
        ELSE IF path = "/workspace/v2/triggers"
        THEN {JsonBody([url |-> "https://mcp.example/t", apiToken |-> "secret"]),
              JsonBody([url |-> "https://mcp.example/t"]),
              JsonBody([url |-> "https://mcp.example/t", err |-> <<"warning">>]),
              JsonBody([err |-> <<"name taken">>]),
              JsonBody([url |-> "", err |-> <<"name taken">>]),
              JsonBody([err |-> <<>>, name |-> "t1"]),
              JsonBody([name |-> "t1", kind |-> "mcp"])}
        ELSE IF path = "/trigger/v1/api"
        THEN {JsonBody([success |-> TRUE, output |-> "ok"]),
              JsonBody([success |-> FALSE]),
              JsonBody([error |-> <<"command failed">>]),
              TextBody("<html>")}
        ELSE IF path = "/workspace/v2/policy/" /\ req.method = "GET"
        THEN {JsonBody(x) : x \in {q \in Range(PolicyPool) : q.name = req.url.path[2]}}
        ELSE IF path = "/workspace/v2/policy" /\ req.method = "GET"
        THEN {JsonBody([policies |-> l]) : l \in ListsUpTo(PolicyPool, MaxTriggers)}
        ELSE IF path = "/workspace/v2/file-url/"
        THEN {JsonBody([success |-> TRUE, url |-> "https://files.example/f"]),
              JsonBody([success |-> FALSE, err |-> <<"no such file">>]),
              JsonBody([url |-> "https://files.example/f"])}
        ELSE IF path = "/workspace/v2/files"
        THEN {TextBody("uploaded")}
        ELSE IF req.method = "GET"
        THEN {JsonBody([users |-> <<[id |-> "u1"]>>, groups |-> <<[name |-> "g1"]>>]),
              JsonBody([count |-> 0])}
        ELSE IF req.method = "DELETE"
        THEN {TextBody("")}
        ELSE {JsonBody([id |-> "new"])}

\* the answers to `req`: a failure among `fails`, or a successful response
RepliesFor(req, fails) ==
    fails \cup {Response(200, PlainHeaders, b) : b \in OkBodies(req)}

\* the scripts after one more answer: a handler that waits for an answer gets
\* each answer to the request it stopped at
Extend(Handler(_), fails, scripts) ==
    UNION {LET ran == Handler(s)
           IN  IF ran.blocked
               THEN {Append(s, a) : a \in RepliesFor(ran.reqs[Len(ran.reqs)], fails)}
               ELSE {s} : s \in scripts}

\* the scripts that Handler runs to its end on; no handler issues more than
\* five requests
Scripts(Handler(_), fails) ==
    Extend(Handler, fails, Extend(Handler, fails, Extend(Handler, fails,
        Extend(Handler, fails, Extend(Handler, fails, {<<>>})))))

(***************************************************************************)
(* The calls.                                                              *)
(***************************************************************************)
NoCall == [op |-> "none"]
NoServer == [trigger |-> <<>>, served |-> <<>>]
NoResult == [raised |-> FALSE, value |-> <<>>]

Init ==
    /\ client = <<>>
    /\ pc = "idle"
    /\ call = NoCall
    /\ result = NoResult
    /\ wire = <<>>
    /\ log = <<>>
    /\ server = NoServer
    /\ callers = <<>>

\* the call `op` with arguments `args`, run by Handler against any script of
\* answers it can get
Do(op, args, Handler(_), fails) ==
    /\ pc = "idle"
    /\ client # <<>>
    /\ \E script \in Scripts(Handler, fails) :
          LET ran == Handler(script)
          IN  /\ call' = [op |-> op, args |-> args, script |-> script]
              /\ result' = ran.out[1]
              /\ wire' = ran.reqs
              /\ log' = Emitted(client[1], ran.reqs,
                                IF op = "_request" THEN args.headers ELSE NoHeaders,
                                script)
    /\ pc' = "done"
    /\ UNCHANGED <<client, server, callers>>

Domains == {<<>>, <<"a", ".", "i", "o">>, <<"a", ".", "i", "o", "/">>}
Tokens == {"", "tok"}
Names == {None, "", "t1"}
Texts == {None, "", "x"}

\* OpsBeaconClient(api_domain, api_token, debug=debug) for a domain of `domains`
ConstructFrom(domains) ==
    /\ pc = "idle"
    /\ client = <<>>
    /\ \E api_domain \in domains, api_token \in Tokens, debug \in BOOLEAN :
          LET made == __init__(api_domain, api_token, DEFAULT_TIMEOUT, debug)
          IN  /\ call' = [op |-> "__init__",
                          args |-> [api_domain |-> api_domain, api_token |-> api_token,
                                    debug |-> debug],
                          script |-> <<>>]
              /\ result' = made
              /\ client' = IF made.raised THEN <<>> ELSE made.value
    /\ wire' = <<>>
    /\ log' = <<>>
    /\ pc' = "done"
    /\ UNCHANGED <<server, callers>>

Construct == ConstructFrom(Domains)

\* construction from domains that end in several slashes, hold a slash
\* inside, or are nothing but a slash
SlashDomains ==
    {<<>>, <<"a", ".", "i", "o">>, <<"a", ".", "i", "o", "/", "/">>,
     <<"a", "/", "b", "/">>, <<"/">>, <<"/", "/">>}

ConstructSlashed == ConstructFrom(SlashDomains)

\* the call has ended and the caller has its outcome
Returned ==
    /\ pc = "done"
    /\ pc' = "idle"
    /\ call' = NoCall
    /\ result' = NoResult
    /\ wire' = <<>>
    /\ log' = <<>>
    /\ UNCHANGED <<client, server, callers>>

ExtraHeaders ==
    {NoHeaders, <<[authorization |-> <<"Bearer ", "other">>]>>, <<[XTrace |-> <<"1">>]>>}

\* close() and leaving a `with` block: self._session.close(); the session
\* opens its connections again when it is used afterwards
close(self, script) == Done(Return(None), <<>>, 0)

Close == Do("close", <<>>, LAMBDA s : close(client[1], s), {})

\* _request called with headers of the caller's own
Request ==
    \E headers \in ExtraHeaders :
        Do("_request", [method |-> "GET", endpoint |-> <<"/workspace/v2/users">>,
                        headers |-> headers],
           LAMBDA s : _request(client[1], "GET", <<"/workspace/v2/users">>, NoJson, NoFiles,
                               headers, s),
           FailReplies)

Users == Do("users", <<>>, LAMBDA s : users(client[1], s), FailReplies)

Groups == Do("groups", <<>>, LAMBDA s : groups(client[1], s), FailReplies)

Policies == Do("policies", <<>>, LAMBDA s : policies(client[1], s), FailReplies)

AddUser ==
    \E user \in {<<>>, <<[email |-> "u@x", role |-> "admin"]>>} :
        Do("add_user", [user |-> user], LAMBDA s : add_user(client[1], user, s), FailReplies)

AddGroup ==
    \E group \in {<<>>, <<[name |-> "g1"]>>} :
        Do("add_group", [group |-> group], LAMBDA s : add_group(client[1], group, s),
           FailReplies)

DeleteUser ==
    \E user_id \in Texts :
        Do("delete_user", [user_id |-> user_id],
           LAMBDA s : delete_user(client[1], user_id, s), FailReplies)

DeleteGroup ==
    \E group_name \in Texts :
        Do("delete_group", [group_name |-> group_name],
           LAMBDA s : delete_group(client[1], group_name, s), FailReplies)

CreatePolicy ==
    \E name \in Texts, commands \in {<<>>, <<<<"c1">>>>} :
        Do("create_policy", [name |-> name, commands |-> commands],
           LAMBDA s : create_policy(client[1], name, "", commands, <<>>, s), FailReplies)

GetPolicy ==
    \E name \in {None, "", "p1", "p3"} :
        Do("get_policy", [name |-> name], LAMBDA s : get_policy(client[1], name, s),
           CoreFailReplies)

DeletePolicy ==
    \E name \in Texts :
        Do("delete_policy", [name |-> name],
           LAMBDA s : delete_policy(client[1], name, s), FailReplies)

FileUpload ==
    \E file_content \in {<<>>, <<"">>, <<"a,b">>}, file_name \in Texts,
       input_file \in {<<>>, <<"data.csv">>}, exists \in BOOLEAN :
        Do("file_upload",
           [file_content |-> file_content, file_name |-> file_name,
            input_file |-> input_file, exists |-> exists],
           LAMBDA s : file_upload(client[1], file_content, file_name, input_file, exists, s),
           FailReplies)

GetFileDownloadUrl ==
    \E file_id \in Texts :
        Do("get_file_download_url", [file_id |-> file_id],
           LAMBDA s : get_file_download_url(client[1], file_id, s), FailReplies)

FileDownload ==
    \E file_name \in Texts, written \in BOOLEAN :
        Do("file_download", [file_name |-> file_name, written |-> written],
           LAMBDA s : file_download(client[1], file_name, written, s), CoreFailReplies)

ArgTexts == {<<>>, <<"-", "a">>, <<"-", "a", " ", "b">>, <<"\"", "a", " ", "b", "\"">>,
             <<"'", "a">>}

ArgValues ==
    {[kind |-> "none"]}
    \cup {[kind |-> "str", val |-> t] : t \in ArgTexts}
    \cup {[kind |-> "list", val |-> l] :
            l \in {<<>>, <<<<"-", "a">>>>, <<<<"-", "a">>, <<"b">>>>, <<<<"a", " ", "b">>>>}}

RunCommand ==
    \E command_text \in {None, "", "srv: ls"}, connection \in {None, "", "srv"},
       command \in {None, "ls"}, args \in ArgValues :
        Do("run",
           [command_text |-> command_text, connection |-> connection,
            command |-> command, args |-> args],
           LAMBDA s : run(client[1], command_text, connection, command, args, s),
           FailReplies)

HashSeeds == {0, 1}

Triggers ==
    \E kind \in {None, "", "mcp", "cron"} :
        Do("triggers", [kind |-> kind], LAMBDA s : triggers(client[1], kind, s), FailReplies)

McpTriggers == Do("mcp_triggers", <<>>, LAMBDA s : mcp_triggers(client[1], s), FailReplies)

GetTrigger ==
    \E name \in Names :
        Do("get_trigger", [name |-> name], LAMBDA s : get_trigger(client[1], name, s),
           CoreFailReplies)

GetMcpTriggerUrl ==
    \E name \in Names :
        Do("get_mcp_trigger_url", [name |-> name],
           LAMBDA s : get_mcp_trigger_url(client[1], name, s), CoreFailReplies)

DeleteTrigger ==
    \E name \in Names :
        Do("delete_trigger", [name |-> name],
           LAMBDA s : delete_trigger(client[1], name, s), FailReplies)

OptionalToolLists == {<<>>} \cup {<<l>> : l \in ToolLists}

CreateMcpTrigger ==
    \E name \in Names, tool_instances \in OptionalToolLists,
       policy_names \in {<<>>, <<<<"p1", "p1">>>>}, hash_seed \in HashSeeds :
        Do("create_mcp_trigger",
           [name |-> name, description |-> "new", tool_instances |-> tool_instances,
            policies |-> policy_names],
           LAMBDA s : create_mcp_trigger(client[1], name, "new", tool_instances,
                                         policy_names, hash_seed, s),
           FailReplies)

UpdateMcpTrigger ==
    \E name \in Names, description \in {None, "", "new"},
       tool_instances \in OptionalToolLists, hash_seed \in HashSeeds :
        Do("update_mcp_trigger",
           [name |-> name, description |-> description, tool_instances |-> tool_instances],
           LAMBDA s : update_mcp_trigger(client[1], name, description, tool_instances,
                                         hash_seed, s),
           TwoFailReplies)

ToolConfigs ==
    {<<>>,
     <<[name |-> <<"n">>, description |-> "new tool", connection |-> "y", command |-> "c2",
        arguments |-> <<<<"path", "/var">>>>]>>,
     <<[name |-> <<"a">>]>>,
     <<[command |-> "c1"]>>}

Uuids == {<<"u1", "u2", "u3", "u4">>[i] : i \in 1..MaxUuids}

AddToolToMcpTrigger ==
    \E trigger_name \in Names, tool_config \in ToolConfigs, instance_id \in Uuids,
       hash_seed \in HashSeeds :
        Do("add_tool_to_mcp_trigger",
           [trigger_name |-> trigger_name, tool_config |-> tool_config,
            instance_id |-> instance_id],
           LAMBDA s : add_tool_to_mcp_trigger(client[1], trigger_name, tool_config,
                                              instance_id, hash_seed, s),
           TwoFailReplies)

RemoveToolFromMcpTrigger ==
    \E trigger_name \in Names, tool_name \in {<<>>, <<"a">>, <<"b">>, <<"ghost">>},
       hash_seed \in HashSeeds :
        Do("remove_tool_from_mcp_trigger",
           [trigger_name |-> trigger_name, tool_name |-> tool_name],
           LAMBDA s : remove_tool_from_mcp_trigger(client[1], trigger_name, tool_name,
                                                   hash_seed, s),
           TwoFailReplies)

TestMcpProtocol ==
    \E mcp_url \in {"", "https://mcp.example/t"}, api_token \in Tokens,
       tool_name \in {None, "b", "zz"} :
        Do("test_mcp_protocol",
           [mcp_url |-> mcp_url, api_token |-> api_token, tool_name |-> tool_name],
           LAMBDA s : test_mcp_protocol(client[1], mcp_url, api_token, tool_name, s),
           CoreFailReplies)

Next ==
    \/ Construct
    \/ Returned
    \/ Close
    \/ Request
    \/ Users
    \/ Groups
    \/ Policies
    \/ AddUser
    \/ AddGroup
    \/ DeleteUser
    \/ DeleteGroup
    \/ CreatePolicy
    \/ GetPolicy
    \/ DeletePolicy
    \/ FileUpload
    \/ GetFileDownloadUrl
    \/ FileDownload
    \/ RunCommand
    \/ Triggers
    \/ McpTriggers
    \/ GetTrigger
    \/ GetMcpTriggerUrl
    \/ DeleteTrigger
    \/ CreateMcpTrigger
    \/ UpdateMcpTrigger
    \/ AddToolToMcpTrigger
    \/ RemoveToolFromMcpTrigger
    \/ TestMcpProtocol

Spec == Init /\ [][Next]_vars

(***************************************************************************)
(* Two calls on one trigger.  The client keeps no state between the        *)
(* requests of a call but the call's own locals, so two calls (of two      *)
(* threads, or of two clients) interleave request by request.  Each caller *)
(* runs its handler against the answers it has got so far; the workspace   *)
(* answers a GET by name with the trigger it holds and stores the payload  *)
(* of a PUT.                                                               *)
(***************************************************************************)
CallerIds == {1, 2}

\* the tools the trigger holds at the start
StartTools == {<<ToolA>>, <<ToolA, ToolC>>}

\* the calls a caller makes: add a tool, or remove the tools called "a"
RaceCalls ==
    {[op |-> "add_tool_to_mcp_trigger",
      tool_config |-> <<[name |-> <<"n">>, connection |-> "y", command |-> "c2"]>>],
     [op |-> "add_tool_to_mcp_trigger", tool_config |-> <<[command |-> "c1"]>>],
     [op |-> "remove_tool_from_mcp_trigger", tool_name |-> <<"a">>]}

\* str(uuid.uuid4()) of caller c
InstanceIdOf(c) == IF c = 1 THEN "u1" ELSE "u2"

RaceInit ==
    /\ client = __init__(<<"a", ".", "i", "o">>, "tok", DEFAULT_TIMEOUT, FALSE).value
    /\ pc = "idle"
    /\ call = NoCall
    /\ result = NoResult
    /\ wire = <<>>
    /\ log = <<>>
    /\ \E tools \in StartTools :
           server = [trigger |-> <<McpTrigger("t1", tools)>>, served |-> <<>>]
    /\ callers \in [CallerIds -> {[call |-> c, script |-> <<>>, out |-> <<>>] : c \in RaceCalls}]

\* the handler of caller c run against the answers it has got
Running(c) ==
    IF callers[c].call.op = "add_tool_to_mcp_trigger"
    THEN add_tool_to_mcp_trigger(client[1], "t1", callers[c].call.tool_config,
                                 InstanceIdOf(c), 0, callers[c].script)
    ELSE remove_tool_from_mcp_trigger(client[1], "t1", callers[c].call.tool_name, 0,
                                      callers[c].script)

\* the workspace's answer to `req` when it holds `held`
ServerAnswer(req, held) ==
    IF req.method = "PUT" THEN Response(200, PlainHeaders, JsonBody(req.json[1]))
    ELSE Response(200, PlainHeaders, JsonBody(held[1]))

\* what the workspace holds after `req`
ServerHolds(req, held) == IF req.method = "PUT" THEN <<req.json[1]>> ELSE held

\* caller c sends the request its handler waits at, and gets the answer
CallerSends(c, req) ==
    /\ server' = [trigger |-> ServerHolds(req, server.trigger),
                  served |-> Append(server.served, [caller |-> c, method |-> req.method])]
    /\ callers' = [callers EXCEPT
                      ![c].script = Append(@, ServerAnswer(req, server.trigger))]

Sends ==
    \E c \in CallerIds :
        /\ callers[c].out = <<>>
        /\ Running(c).blocked
        /\ CallerSends(c, Running(c).reqs[Len(Running(c).reqs)])
        /\ UNCHANGED <<client, pc, call, result, wire, log>>

\* the call of caller c ends
Ends ==
    \E c \in CallerIds :
        /\ callers[c].out = <<>>
        /\ ~Running(c).blocked
        /\ callers' = [callers EXCEPT ![c].out = Running(c).out]
        /\ UNCHANGED <<client, pc, call, result, wire, log, server>>

RaceNext == Sends \/ Ends

RaceSpec == RaceInit /\ [][RaceNext]_vars

\* the client's configuration: construction from any of the slashed domains,
\* then calls that use and close the session
ConfigNext ==
    \/ ConstructSlashed
    \/ Returned
    \/ Close
    \/ Request
    \/ Users

ConfigSpec == Init /\ [][ConfigNext]_vars

(***************************************************************************)
(* Properties.                                                             *)
(***************************************************************************)
\* a call of `op` has ended
Finished(op) == pc = "done" /\ call.op = op

\* the library's answer is a failure: one of its exceptions, or an error status
IsFailure(reply) == reply.kind = "exception" \/ reply.status_code >= 400

IsStatus(reply, status) == reply.kind = "response" /\ reply.status_code = status

RaisedType(type) == result.raised /\ result.exc.type = type

\* the positions of the write (PUT) requests of the call
Puts == {i \in 1..Len(wire) : wire[i].method = "PUT"}

\* the operations that hand the outcome of their one _request to the caller
Accessors ==
    {"users", "groups", "policies", "add_user", "add_group", "delete_user", "delete_group",
     "create_policy", "delete_policy", "triggers", "mcp_triggers", "delete_trigger"}

\* C1: every failure of the execution request of run() -- an error status, a
\* connection failure, a timeout -- is raised as a CommandExecutionError that
\* carries the command (the command text in free-text mode) and the connection.
C1_RunWrapsEveryFailure ==
    (Finished("run") /\ Len(wire) = 1 /\ IsFailure(call.script[1])) =>
        /\ RaisedType("CommandExecutionError")
        /\ result.exc.command = IF Truthy(call.args.command_text)
                                THEN call.args.command_text ELSE call.args.command
        /\ result.exc.connection = call.args.connection

\* C2: the outcome of a request is decided by the status code of its response
\* alone: 401 and 403 raise AuthenticationError (403 with the permissions
\* message), 404 raises APIError with status 404, 429 raises RateLimitError, any
\* other status >= 400 raises APIError with that status, a status < 400 raises
\* nothing.
C2_StatusAloneDecides ==
    (pc = "done" /\ call.op \in Accessors /\ Len(wire) = 1
     /\ call.script[1].kind = "response") =>
        LET status == call.script[1].status_code
        IN  /\ status = 401 =>
                /\ RaisedType("AuthenticationError")
                /\ result.exc.message = <<"Authentication failed. Check your API token.">>
            /\ status = 403 =>
                /\ RaisedType("AuthenticationError")
                /\ result.exc.message
                     = <<"Access forbidden. Check your API token permissions.">>
            /\ status = 404 => RaisedType("APIError") /\ result.exc.status_code = <<404>>
            /\ status = 429 => RaisedType("RateLimitError")
            /\ (status >= 400 /\ status \notin {401, 403, 404, 429}) =>
                RaisedType("APIError") /\ result.exc.status_code = <<status>>
            /\ status < 400 => ~result.raised

\* C3: an operation that raises ValidationError has issued no HTTP request.
C3_ValidationBeforeAnyRequest ==
    (pc = "done" /\ RaisedType("ValidationError")) => wire = <<>>

\* C3 happens: a call with a missing argument has ended in ValidationError.
C3_Witness ==
    /\ Finished("remove_tool_from_mcp_trigger")
    /\ call.args.trigger_name = "t1"
    /\ call.args.tool_name = <<>>
    /\ RaisedType("ValidationError")

\* the trigger a call on the trigger `name` fetched first, and the fetch it
\* made next (the one inside update_mcp_trigger, for the tool operations)
FirstFetch(name) == get_trigger(client[1], name, call.script)

SecondFetch(name) ==
    get_trigger(client[1], name, Rest(call.script, FirstFetch(name).used))

Fetched(g) == ~g.blocked /\ ~g.out[1].raised

\* the body of the first PUT request of the call
PutPayload == wire[CHOOSE i \in Puts : \A j \in Puts : i <= j].json[1]

\* C4: the PUT payload of update_mcp_trigger repeats every field of the fetched
\* trigger that the caller did not override: the description when none is
\* given, commands and connections when no tool list is given, the policies,
\* and every key of mcpTriggerInfo other than a supplied toolInstances.
C4_UnsetFieldsKeepTheirValues ==
    (Finished("update_mcp_trigger") /\ Puts # {}) =>
        LET existing == FirstFetch(call.args.name).out[1].value[1]
            info == Get(existing, "mcpTriggerInfo", <<>>)
            kept == IF call.args.tool_instances = <<>> THEN DOMAIN info
                    ELSE DOMAIN info \ {"toolInstances"}
        IN  /\ (call.args.description = None /\ "description" \in DOMAIN existing) =>
                PutPayload.description = existing.description
            /\ (call.args.tool_instances = <<>> /\ "commands" \in DOMAIN existing) =>
                PutPayload.commands = existing.commands
            /\ (call.args.tool_instances = <<>> /\ "connections" \in DOMAIN existing) =>
                PutPayload.connections = existing.connections
            /\ "policies" \in DOMAIN existing =>
                /\ "policies" \in DOMAIN PutPayload
                /\ PutPayload.policies = existing.policies
            /\ \A k \in kept :
                /\ k \in DOMAIN PutPayload.mcpTriggerInfo
                /\ PutPayload.mcpTriggerInfo[k] = info[k]
            /\ call.args.tool_instances # <<>> =>
                PutPayload.mcpTriggerInfo.toolInstances = call.args.tool_instances[1]

\* the trigger name of a call of one of the three MCP operations
TargetName == IF call.op = "update_mcp_trigger" THEN call.args.name ELSE call.args.trigger_name

McpOperations ==
    {"update_mcp_trigger", "add_tool_to_mcp_trigger", "remove_tool_from_mcp_trigger"}

NotMcp(g) == Fetched(g) /\ Get(g.out[1].value[1], "kind", None) # "mcp"

\* C5: when a trigger that update_mcp_trigger, add_tool_to_mcp_trigger or
\* remove_tool_from_mcp_trigger fetched has a kind other than "mcp", the call
\* raises MCPError carrying the trigger name and issues no PUT request.
C5_NonMcpTriggerIsNeverWritten ==
    (pc = "done" /\ call.op \in McpOperations
     /\ (NotMcp(FirstFetch(TargetName)) \/ NotMcp(SecondFetch(TargetName)))) =>
        /\ RaisedType("MCPError")
        /\ result.exc.trigger_name = TargetName
        /\ Puts = {}

\* C5 happens: add_tool_to_mcp_trigger fetched a webHook trigger and raised.
C5_Witness ==
    /\ Finished("add_tool_to_mcp_trigger")
    /\ Fetched(FirstFetch("t1"))
    /\ Get(FirstFetch("t1").out[1].value[1], "kind", None) = "webHook"
    /\ RaisedType("MCPError")

\* the positions of the entries of `items` named `name`
NamedAt(items, name) ==
    {i \in 1..Len(items) : "name" \in DOMAIN items[i] /\ items[i].name = name}

IsGet(req, path) == req.method = "GET" /\ req.url.path = path

\* C6: get_trigger(name) returns the body of a successful GET by name and issues
\* no list request; when that GET answers 404 it lists all triggers and, the
\* list obtained, returns the first entry named `name`, or raises
\* ResourceNotFoundError("Trigger", name) when there is none.
C6_FallbackReturnsFirstMatch ==
    (Finished("get_trigger") /\ Truthy(call.args.name) /\ Len(call.script) >= 1) =>
        LET name == call.args.name
            first == call.script[1]
        IN  /\ (first.kind = "response" /\ first.status_code < 400) =>
                /\ result = Return(first.body.parsed[1])
                /\ Len(wire) = 1
                /\ IsGet(wire[1], <<"/workspace/v2/triggers/", name>>)
            /\ IsStatus(first, 404) =>
                /\ Len(wire) = 2
                /\ IsGet(wire[2], <<"/workspace/v2/triggers">>)
            /\ (IsStatus(first, 404) /\ Len(call.script) = 2
                /\ call.script[2].kind = "response" /\ call.script[2].status_code < 400) =>
                LET listed == Get(call.script[2].body.parsed[1], "triggers", <<>>)
                    at == NamedAt(listed, name)
                IN  IF at = {}
                    THEN result = Raise(ResourceNotFoundError("Trigger", name))
                    ELSE result = Return(listed[CHOOSE i \in at : \A j \in at : i <= j])

\* C6 happens: after a 404 the list held two triggers of the name and the call
\* returned one.
C6_Witness ==
    /\ Finished("get_trigger")
    /\ Len(call.script) = 2
    /\ IsStatus(call.script[1], 404)
    /\ call.script[2].kind = "response" /\ call.script[2].status_code < 400
    /\ Cardinality(NamedAt(Get(call.script[2].body.parsed[1], "triggers", <<>>),
                           call.args.name)) >= 2
    /\ ~result.raised

\* the positions of the tools of `tool_instances` called `tool_name`
ToolsNamed(tool_instances, tool_name) ==
    {i \in 1..Len(tool_instances) :
        /\ "overrides" \in DOMAIN tool_instances[i]
        /\ "name" \in DOMAIN tool_instances[i].overrides
        /\ tool_instances[i].overrides.name = tool_name}

\* the tool list of a fetched trigger
ToolsOf(g) == Get(Get(g.out[1].value[1], "mcpTriggerInfo", <<>>), "toolInstances", <<>>)

IsMcp(g) == Fetched(g) /\ Get(g.out[1].value[1], "kind", None) = "mcp"

\* C7: remove_tool_from_mcp_trigger on an mcp trigger with no tool of the name
\* raises ResourceNotFoundError for the tool and issues no PUT; with a tool of
\* the name, a PUT it issues carries the fetched tool list without the tools of
\* that name, the others in their order, and a call that returns has issued it.
C7_RemoveFiltersByName ==
    (Finished("remove_tool_from_mcp_trigger") /\ call.args.tool_name # <<>>
     /\ IsMcp(FirstFetch(call.args.trigger_name))) =>
        LET L == ToolsOf(FirstFetch(call.args.trigger_name))
            named == ToolsNamed(L, call.args.tool_name)
        IN  /\ named = {} =>
                /\ result = Raise(ResourceNotFoundError("Tool", call.args.tool_name))
                /\ Puts = {}
            /\ named # {} =>
                /\ ~result.raised => Cardinality(Puts) = 1
                /\ Puts # {} =>
                    PutPayload.mcpTriggerInfo.toolInstances
                        = Chosen(L, (1..Len(L)) \ named)

\* C7 happens: a PUT went out with one tool removed and two kept.
C7_Witness ==
    /\ Finished("remove_tool_from_mcp_trigger")
    /\ IsMcp(FirstFetch(call.args.trigger_name))
    /\ Len(ToolsOf(FirstFetch(call.args.trigger_name))) = 3
    /\ Puts # {}
    /\ Len(PutPayload.mcpTriggerInfo.toolInstances) = 2
    /\ ~result.raised

\* the tool list create_mcp_trigger was given ([] for None)
GivenTools ==
    IF call.args.tool_instances = <<>> THEN <<>> ELSE call.args.tool_instances[1]

\* the non-empty values the given tools have under overrides[key]
GivenValues(key) ==
    {GivenTools[i].overrides[key] :
        i \in {j \in 1..Len(GivenTools) :
                 /\ "overrides" \in DOMAIN GivenTools[j]
                 /\ key \in DOMAIN GivenTools[j].overrides
                 /\ GivenTools[j].overrides[key] # ""}}

\* C8: create_mcp_trigger issues one request, a POST of a trigger of kind "mcp"
\* whose commands are the non-empty overrides.command values of the given
\* tools, each once, whose connections are the non-empty overrides.connection
\* values, each once, and whose toolInstances is the given list.
C8_CreateSendsEachValueOnce ==
    (Finished("create_mcp_trigger") /\ Truthy(call.args.name)) =>
        /\ Len(wire) = 1
        /\ wire[1].method = "POST"
        /\ wire[1].url.path = <<"/workspace/v2/triggers">>
        /\ wire[1].json[1].kind = "mcp"
        /\ Range(wire[1].json[1].commands) = GivenValues("command")
        /\ Len(wire[1].json[1].commands) = Cardinality(GivenValues("command"))
        /\ Range(wire[1].json[1].connections) = GivenValues("connection")
        /\ Len(wire[1].json[1].connections) = Cardinality(GivenValues("connection"))
        /\ wire[1].json[1].mcpTriggerInfo.toolInstances = GivenTools

\* C8 happens: three tools, two on one connection and one with an empty
\* command, went out with one connection and two commands.
C8_Witness ==
    /\ Finished("create_mcp_trigger")
    /\ GivenTools = <<ToolA, ToolD, ToolB>>
    /\ Len(wire) = 1
    /\ wire[1].json[1].connections = <<"x">>
    /\ Len(wire[1].json[1].commands) = 2

\* C9: create_mcp_trigger turns a 2xx response into the envelope {success, name,
\* url, apiToken, message} when the body has a non-empty url, into MCPError
\* with the trigger name when it has none but has an err, and into the body
\* itself otherwise; a response of an error status raises MCPError with the
\* trigger name.
C9_CreateOutcomes ==
    (Finished("create_mcp_trigger") /\ Truthy(call.args.name) /\ Len(call.script) = 1
     /\ call.script[1].kind = "response") =>
        LET name == call.args.name
            reply == call.script[1]
            body == reply.body.parsed[1]
        IN  IF reply.status_code >= 400
            THEN RaisedType("MCPError") /\ result.exc.trigger_name = name
            ELSE IF Get(body, "url", "") # ""
            THEN result = Return([success |-> TRUE, name |-> name, url |-> body.url,
                                  apiToken |-> Get(body, "apiToken", None),
                                  message |-> <<"MCP trigger '", name,
                                                "' created successfully">>])
            ELSE IF Get(body, "err", <<>>) # <<>>
            THEN /\ RaisedType("MCPError")
                 /\ result.exc.trigger_name = name
                 /\ result.exc.message = body.err
            ELSE result = Return(body)

\* the name str(N) of the first positions
Numeral(n) == <<"1", "2", "3", "4", "5", "6", "7", "8", "9">>[n]

\* C10: the update add_tool_to_mcp_trigger sends for an mcp trigger with the
\* tool list L carries L, unchanged, followed by one new tool whose instanceId
\* and templateId are the generated identifier, whose name is tool_config's or
\* "tool_N" with N = len(L) + 1, and whose description, connection, command and
\* argumentOverrides are tool_config's or empty; a call that returns has sent it.
C10_AddAppendsOneTool ==
    (Finished("add_tool_to_mcp_trigger") /\ call.args.tool_config # <<>>
     /\ IsMcp(FirstFetch(call.args.trigger_name))) =>
        LET L == ToolsOf(FirstFetch(call.args.trigger_name))
            tool_config == call.args.tool_config[1]
            sent == PutPayload.mcpTriggerInfo.toolInstances
            new == sent[Len(sent)]
        IN  /\ ~result.raised => Cardinality(Puts) = 1
            /\ Puts # {} =>
                /\ Len(sent) = Len(L) + 1
                /\ SubSeq(sent, 1, Len(L)) = L
                /\ DOMAIN new = {"instanceId", "templateId", "overrides"}
                /\ new.instanceId = call.args.instance_id
                /\ new.templateId = call.args.instance_id
                /\ DOMAIN new.overrides
                     = {"name", "description", "connection", "command", "argumentOverrides"}
                /\ new.overrides.name
                     = IF "name" \in DOMAIN tool_config THEN tool_config.name
                       ELSE <<"tool_", Numeral(Len(L) + 1)>>
                /\ new.overrides.description = Get(tool_config, "description", "")
                /\ new.overrides.connection = Get(tool_config, "connection", "")
                /\ new.overrides.command = Get(tool_config, "command", "")
                /\ new.overrides.argumentOverrides = Get(tool_config, "arguments", <<>>)

\* C10 happens: an unnamed tool was appended to a list of MaxTools tools.
C10_Witness ==
    /\ Finished("add_tool_to_mcp_trigger")
    /\ call.args.tool_config = <<[command |-> "c1"]>>
    /\ IsMcp(FirstFetch(call.args.trigger_name))
    /\ Len(ToolsOf(FirstFetch(call.args.trigger_name))) = 3
    /\ Puts # {}
    /\ PutPayload.mcpTriggerInfo.toolInstances[4].overrides.name = <<"tool_", "4">>
    /\ ~result.raised

\* the JSON-RPC methods of the requests of the call, in the order sent
SentMethods == [i \in 1..Len(wire) |-> wire[i].json[1].method]

\* the three result slots of test_mcp_protocol, in the order of the steps
Slots == <<result.value[1].initialize, result.value[1].tools, result.value[1].execution>>

\* the tools a tools/list response announces
Announced(reply) ==
    IF "result" \in DOMAIN reply.body.parsed[1]
       /\ "tools" \in DOMAIN reply.body.parsed[1].result
    THEN reply.body.parsed[1].result.tools ELSE <<>>

\* C11: test_mcp_protocol sends initialize, tools/list, tools/call in this
\* order, each at most once: tools/list only after initialize succeeded,
\* tools/call only after tools/list succeeded and announced a tool.  When the
\* last step sent failed, its slot holds the captured error, the slots of the
\* later steps are unset and success is false.
C11_StepsInOrderAndShortCircuit ==
    (Finished("test_mcp_protocol") /\ ~result.raised) =>
        /\ SentMethods \in {<<"initialize">>, <<"initialize", "tools/list">>,
                            <<"initialize", "tools/list", "tools/call">>}
        /\ Len(wire) >= 2 => ~IsFailure(call.script[1])
        /\ Len(wire) = 3 => ~IsFailure(call.script[2]) /\ Announced(call.script[2]) # <<>>
        /\ IsFailure(call.script[Len(wire)]) =>
            /\ Slots[Len(wire)] # <<>>
            /\ DOMAIN Slots[Len(wire)][1] = {"error"}
            /\ \A k \in (Len(wire) + 1)..3 : Slots[k] = <<>>
            /\ ~result.value[1].success

\* C11 happens: tools/list failed after initialize succeeded.
C11_Witness ==
    /\ Finished("test_mcp_protocol")
    /\ ~result.raised
    /\ Len(wire) = 2
    /\ IsFailure(call.script[2])
    /\ Slots[3] = <<>>

\* C12: the success flag test_mcp_protocol returns is true exactly when a
\* tools/call request was sent, was answered without failure and its response
\* has a result key; when tools/list announced no tool the execution slot holds
\* the "No tools available to execute" marker.
C12_SuccessIffCallHasResult ==
    (Finished("test_mcp_protocol") /\ ~result.raised) =>
        /\ result.value[1].success
             <=> /\ Len(wire) = 3
                 /\ wire[3].json[1].method = "tools/call"
                 /\ ~IsFailure(call.script[3])
                 /\ "result" \in DOMAIN call.script[3].body.parsed[1]
        /\ (Len(wire) = 2 /\ ~IsFailure(call.script[2])) =>
            result.value[1].execution = <<[message |-> "No tools available to execute"]>>

\* C12 happens: the tools/call response had a result and an error key, and
\* success is true.
C12_Witness ==
    /\ Finished("test_mcp_protocol")
    /\ ~result.raised
    /\ result.value[1].success
    /\ "error" \in DOMAIN call.script[3].body.parsed[1]

\* the Retry-After header of a response: <<>> when absent, <<text>> otherwise
RetryAfterOf(reply) == Get(reply.headers, "Retry-After", <<>>)

IsNumeric(text) == text # <<>> /\ \A i \in 1..Len(text) : IsDigit(text[i])

\* C13: every 429 response makes the request raise RateLimitError, whose
\* retry_after is the number in the Retry-After header when the header is
\* present and numeric, and unset when it is absent or not numeric.
C13_RateLimitCarriesRetryAfter ==
    (pc = "done" /\ call.op \in Accessors /\ Len(wire) = 1
     /\ IsStatus(call.script[1], 429)) =>
        /\ RaisedType("RateLimitError")
        /\ result.exc.retry_after
             = IF RetryAfterOf(call.script[1]) # <<>>
                  /\ IsNumeric(RetryAfterOf(call.script[1])[1])
               THEN <<DigitsVal(RetryAfterOf(call.script[1])[1])>>
               ELSE <<>>

\* the exceptions of the HTTP library that report a failure to connect, and
\* those that report a timeout
ConnectFailures == {"ConnectionError"}
Timeouts == {"ConnectTimeout", "ReadTimeout"}

\* C14: a failure of the HTTP library before a response is raised as one typed
\* error chosen by its kind: ConnectionError for a failure to connect,
\* TimeoutError with the client's timeout for a timeout, APIError without a
\* status code for any other library exception.
C14_LibraryFailureByKind ==
    (pc = "done" /\ call.op \in Accessors /\ Len(wire) = 1
     /\ call.script[1].kind = "exception") =>
        IF call.script[1].exc \in ConnectFailures
        THEN RaisedType("ConnectionError")
        ELSE IF call.script[1].exc \in Timeouts
        THEN RaisedType("TimeoutError") /\ result.exc.timeout = <<client[1].timeout>>
        ELSE /\ RaisedType("APIError")
             /\ result.exc.status_code = <<>>
             /\ result.exc.message = <<"Request failed: ", call.script[1].exc>>

\* the requests of the call that went through _request (those of file_download
\* and test_mcp_protocol are made with the requests module directly)
SessionRequests == {i \in 1..Len(wire) : wire[i].url.base # <<>>}

\* C15: every request an operation of the client sends through _request
\* carries the bearer Authorization header; it carries Content-Type application/json when it has no file data,
\* and does not carry it when it sends multipart file data.
C15_HeadersOfEveryRequest ==
    (pc = "done" /\ call.op # "_request") =>
        \A i \in SessionRequests :
            /\ "Authorization" \in DOMAIN wire[i].headers
            /\ wire[i].headers.Authorization = <<"Bearer ", client[1]._api_token>>
            /\ wire[i].files = <<>> =>
                /\ "ContentType" \in DOMAIN wire[i].headers
                /\ wire[i].headers.ContentType = <<"application/json">>
            /\ wire[i].files # <<>> =>
                ~ /\ "ContentType" \in DOMAIN wire[i].headers
                  /\ wire[i].headers.ContentType = <<"application/json">>

\* the caller's headers of the call: only a direct _request has any
GivenHeaders == IF call.op = "_request" THEN call.args.headers ELSE NoHeaders

\* a client that differs from `self` only in its API token
OtherToken == "tok2"
Twin(self) == __init__(self.api_domain, OtherToken, self.timeout, self.debug).value[1]

\* the Headers records of the log
HeaderRecords == {i \in 1..Len(log) : log[i].msg = "Headers"}

\* every logged value of an Authorization header, whatever its case, is the mask
AuthorizationMasked ==
    \A i \in HeaderRecords :
        \A k \in DOMAIN log[i].headers :
            Lower(k) = "authorization" => log[i].headers[k] = Mask

\* the same call by the twin client emits the same records
SameAsTwin == log = Emitted(Twin(client[1]), wire, GivenHeaders, call.script)

\* a call of an operation of a constructed client has ended
Called == pc = "done" /\ client # <<>> /\ call.op # "__init__"

\* C16 as stated: with debug enabled every logged Authorization value is
\* masked and a client with another token emits the same records; with debug
\* disabled nothing is emitted.
C16_NothingEmittedWithoutDebug ==
    Called =>
        /\ client[1].debug => AuthorizationMasked /\ SameAsTwin
        /\ ~client[1].debug => log = <<>>

\* C16, amended: every logged Authorization value is masked, whatever the case
\* of the header's name and also when the caller supplied it, and a client
\* with another token emits the same records; with debug disabled no request or
\* response record is emitted: the only records are the error records of
\* failures of the HTTP library, one for each.
C16_DebugLogMasksAuthorization ==
    Called =>
        /\ AuthorizationMasked
        /\ SameAsTwin
        /\ client[1].debug =>
               \A i \in SessionRequests : \E j \in HeaderRecords :
                   DOMAIN log[j].headers =
                       DOMAIN request_headers(client[1], wire[i].files, GivenHeaders)
        /\ ~client[1].debug =>
               /\ \A i \in 1..Len(log) : log[i].level = "error"
               /\ Len(log) = Cardinality({i \in SessionRequests :
                                             call.script[i].kind = "exception"})

\* a debug client was called with an authorization header of the caller's own
\* and logged its request
C16_Witness ==
    /\ Called
    /\ client[1].debug
    /\ call.op = "_request"
    /\ GivenHeaders # NoHeaders
    /\ "authorization" \in DOMAIN GivenHeaders[1]
    /\ HeaderRecords # {}


\* the call sent one request, a POST to /trigger/v1/api
OneExecutionPost ==
    /\ Len(wire) = 1
    /\ wire[1].method = "POST"
    /\ wire[1].url = [base |-> base_url(client[1]), path |-> <<"/trigger/v1/api">>]
    /\ wire[1].json # <<>>

\* C17: run sends exactly one POST to /trigger/v1/api whose body is
\* {commandLine} when command_text is non-empty, whatever the other
\* arguments, and {command, connection, arguments} when it is empty and
\* connection and command are both non-empty; otherwise it raises
\* ValidationError.
C17_RunModeByPrecedence ==
    Finished("run") =>
        IF Truthy(call.args.command_text)
        THEN /\ OneExecutionPost
             /\ wire[1].json[1] = [commandLine |-> call.args.command_text]
        ELSE IF Truthy(call.args.connection) /\ Truthy(call.args.command)
        THEN /\ OneExecutionPost
             /\ DOMAIN wire[1].json[1] = {"command", "connection", "arguments"}
             /\ wire[1].json[1].command = call.args.command
             /\ wire[1].json[1].connection = call.args.connection
        ELSE RaisedType("ValidationError") /\ wire = <<>>

\* " ".join(tokens)
RECURSIVE Join(_)
Join(tokens) ==
    IF tokens = <<>> THEN <<>>
    ELSE IF Len(tokens) = 1 THEN tokens[1]
    ELSE tokens[1] \o <<" ">> \o Join(Tail(tokens))

\* a structured call of run has ended
StructuredRun ==
    /\ Finished("run")
    /\ ~Truthy(call.args.command_text)
    /\ Truthy(call.args.connection)
    /\ Truthy(call.args.command)

\* the requests of the same call made with `args` in place of its args
RequestsWith(args) ==
    run(client[1], call.args.command_text, call.args.connection, call.args.command, args,
        call.script).reqs

\* the call sent the tokens as they were given, and the same call with the
\* tokens joined by single spaces sends the same request
SameAsJoined ==
    /\ Len(wire) = 1
    /\ wire[1].json[1].arguments = call.args.args.val
    /\ RequestsWith([kind |-> "str", val |-> Join(call.args.args.val)]) = wire

\* no args at all: absent or None, the empty string, the empty list
NoArgs == call.args.args.kind = "none" \/ call.args.args.val = <<>>

\* tokens that are not empty and hold no space and no quote
PlainTokens(tokens) ==
    \A i \in 1..Len(tokens) :
        /\ tokens[i] # <<>>
        /\ \A j \in 1..Len(tokens[i]) : tokens[i][j] \notin {" ", "'", "\""}

\* C18 as stated: in structured mode every sequence of tokens given as a list
\* is sent unchanged as the arguments, and the same tokens joined by single
\* spaces and given as a string produce the identical request; no args, None,
\* the empty string and the empty list all give an empty arguments list.
C18_EveryTokenSequence ==
    StructuredRun =>
        /\ call.args.args.kind = "list" => SameAsJoined
        /\ NoArgs => Len(wire) = 1 /\ wire[1].json[1].arguments = <<>>

\* C18, amended: the same for sequences of tokens that are not empty and hold
\* no white space and no quote character.
C18_PlainTokensGiveTheSameBody ==
    StructuredRun =>
        /\ (call.args.args.kind = "list" /\ PlainTokens(call.args.args.val)) => SameAsJoined
        /\ NoArgs => Len(wire) = 1 /\ wire[1].json[1].arguments = <<>>

\* a structured call with two plain tokens has returned
C18_Witness ==
    /\ StructuredRun
    /\ call.args.args.kind = "list"
    /\ Len(call.args.args.val) = 2
    /\ PlainTokens(call.args.args.val)
    /\ ~result.raised

\* the execution request of the call was answered with a 2xx response
AnsweredOk ==
    /\ Len(wire) = 1
    /\ call.script[1].kind = "response"
    /\ 200 <= call.script[1].status_code
    /\ call.script[1].status_code < 300

\* C19: for every 2xx response to its request run returns the parsed JSON body
\* unchanged and raises nothing; run raises only when it rejected its
\* arguments, before any request, or when the request failed: the HTTP library
\* raised or the response has an error status.
C19_Every2xxIsReturned ==
    Finished("run") =>
        /\ AnsweredOk =>
               /\ ~result.raised
               /\ call.script[1].body.parsed # <<>>
               /\ result.value = call.script[1].body.parsed
        /\ result.raised =>
               \/ wire = <<>>
               \/ Len(wire) = 1 /\ IsFailure(call.script[1])

\* a call that lists the triggers has returned
Listed ==
    /\ pc = "done"
    /\ call.op \in {"triggers", "mcp_triggers"}
    /\ ~result.raised

\* the list the server returned to the call, and the kind the call asked for
ServerList == Get(call.script[1].body.parsed[1], "triggers", <<>>)
AskedKind == IF call.op = "mcp_triggers" THEN "mcp" ELSE call.args.kind

\* the positions of the server's list that hold a trigger of the asked kind
OfAskedKind ==
    {i \in 1..Len(ServerList) :
        "kind" \in DOMAIN ServerList[i] /\ ServerList[i].kind = AskedKind}

\* the j-th of these positions, counted from the start of the list
NthOfAskedKind(j) ==
    CHOOSE i \in OfAskedKind : Cardinality({x \in OfAskedKind : x <= i}) = j

\* C20: with a non-empty kind, triggers returns exactly the triggers of the
\* server's list whose kind is that kind, each once, unaltered and in the
\* order of the list; without a kind it returns the whole list; mcp_triggers
\* returns what triggers returns for the kind "mcp".
C20_TriggersFilteredInOrder ==
    Listed =>
        IF Truthy(AskedKind)
        THEN /\ Len(result.value[1]) = Cardinality(OfAskedKind)
             /\ \A j \in 1..Len(result.value[1]) :
                    result.value[1][j] = ServerList[NthOfAskedKind(j)]
        ELSE result.value[1] = ServerList

\* mcp_triggers returned two triggers of a list
C20_Witness ==
    /\ Listed
    /\ call.op = "mcp_triggers"
    /\ Len(result.value[1]) = 2
    /\ result.value[1][1] # result.value[1][2]

\* which inputs the call of file_upload was given
ContentGiven == call.args.file_content # <<>>
PathGiven == call.args.input_file # <<>>

\* C21: file_upload raises ValidationError without any request when it is
\* given neither file_content nor input_file and when it is given both; given
\* exactly one it goes on, except that content without a file name is a
\* ValidationError too.
C21_ExactlyOneInputMode ==
    Finished("file_upload") =>
        IF ContentGiven = PathGiven
        THEN RaisedType("ValidationError") /\ wire = <<>>
        ELSE IF ContentGiven /\ ~Truthy(call.args.file_name)
        THEN RaisedType("ValidationError") /\ wire = <<>>
        ELSE ~RaisedType("ValidationError")

\* the download URL was obtained and the fetch of it was made
Fetching == Finished("file_download") /\ Len(wire) = 2

\* C22: once file_download has the URL, every failure of the fetch and of the
\* write is raised as FileOperationError with operation "download", and True
\* is returned only when the fetch succeeded and the content was written.
C22_DownloadFailuresAreFileErrors ==
    Fetching =>
        /\ result.raised =>
               /\ RaisedType("FileOperationError")
               /\ result.exc.operation = "download"
        /\ ~result.raised =>
               /\ result.value = <<TRUE>>
               /\ ~IsFailure(call.script[2])
               /\ call.args.written

\* a construction from a non-empty domain and a non-empty token has ended
Constructing ==
    /\ Finished("__init__")
    /\ call.args.api_domain # <<>>
    /\ Truthy(call.args.api_token)

\* `stored` is `given` without the slashes at its end, and nothing else
WithoutTrailingSlashes(stored, given) ==
    /\ Len(stored) <= Len(given)
    /\ stored = SubSeq(given, 1, Len(stored))
    /\ \A i \in (Len(stored) + 1)..Len(given) : given[i] = "/"
    /\ stored # <<>> => stored[Len(stored)] # "/"

\* C23: construction from a non-empty domain and a non-empty token succeeds
\* and stores the domain without its trailing slashes, otherwise unchanged;
\* base_url is "https://" followed by the stored domain.
C23_TrailingSlashesStripped ==
    Constructing =>
        /\ ~result.raised
        /\ client # <<>>
        /\ WithoutTrailingSlashes(client[1].api_domain, call.args.api_domain)
        /\ base_url(client[1]) = <<"h", "t", "t", "p", "s", ":", "/", "/">>
                                    \o client[1].api_domain

\* a domain that ends in two slashes and holds others was stored
C23_Witness ==
    /\ Constructing
    /\ Len(call.args.api_domain) = Len(client[1].api_domain) + 2
    /\ client[1].api_domain # <<>>

\* C30: a constructed client has a non-empty stored domain, so that base_url
\* is more than "https://", and a non-empty token.
C30_ConfigurationNeverEmpty ==
    client # <<>> =>
        /\ client[1].api_domain # <<>>
        /\ base_url(client[1]) # <<"h", "t", "t", "p", "s", ":", "/", "/">>
        /\ Truthy(client[1]._api_token)

\* the methods of the requests of the call, in order
Methods == [i \in 1..Len(wire) |-> wire[i].method]

\* the operations that make one request of their own
SingleRequestOperations ==
    Accessors \cup {"run", "create_mcp_trigger", "file_upload", "get_file_download_url"}

\* the first request of the call, the lookup by name, was answered with success
DirectLookupOk == Len(call.script) >= 1 /\ ~IsFailure(call.script[1])

\* the positions of the lookups of the target trigger by its name
Lookups ==
    {i \in 1..Len(wire) : IsGet(wire[i], <<"/workspace/v2/triggers/", TargetName>>)}

\* what C24 says of every operation but add_tool_to_mcp_trigger and
\* remove_tool_from_mcp_trigger: the accessors issue at most one request;
\* get_trigger issues one, or two when its GET by name failed and the list
\* request follows; update_mcp_trigger whose lookup succeeded issues at most
\* two, GET then PUT when it writes.
RequestsOfTheOthers ==
    /\ call.op \in SingleRequestOperations => Len(wire) <= 1
    /\ (call.op = "get_trigger" /\ Truthy(call.args.name)) =>
           /\ Len(wire) \in {1, 2}
           /\ IsGet(wire[1], <<"/workspace/v2/triggers/", call.args.name>>)
           /\ Len(wire) = 1 => (result.raised <=> IsFailure(call.script[1]))
           /\ Len(wire) = 2 =>
                  /\ IsFailure(call.script[1])
                  /\ IsGet(wire[2], <<"/workspace/v2/triggers">>)
    /\ (call.op = "update_mcp_trigger" /\ DirectLookupOk) =>
           /\ Len(wire) <= 2
           /\ Puts # {} => Methods = <<"GET", "PUT">>

Existing == FirstFetch(call.args.name).out[1].value[1]

\* C25: in the PUT payload of update_mcp_trigger, when a tool list is given,
\* the empty one included, commands and connections are the non-empty
\* overrides.command and overrides.connection values of the given list, each
\* once (none for the empty list); when no list is given they are those of the
\* fetched trigger.
C25_CommandsFromGivenList ==
    (Finished("update_mcp_trigger") /\ Puts # {}) =>
        IF call.args.tool_instances # <<>>
        THEN /\ Range(PutPayload.commands) = GivenValues("command")
             /\ Len(PutPayload.commands) = Cardinality(GivenValues("command"))
             /\ Range(PutPayload.connections) = GivenValues("connection")
             /\ Len(PutPayload.connections) = Cardinality(GivenValues("connection"))
             /\ call.args.tool_instances[1] = <<>> =>
                    PutPayload.commands = <<>> /\ PutPayload.connections = <<>>
        ELSE /\ PutPayload.commands = Get(Existing, "commands", <<>>)
             /\ PutPayload.connections = Get(Existing, "connections", <<>>)

\* the empty list was given for a trigger that had commands, and none were sent
C25_Witness ==
    /\ Finished("update_mcp_trigger")
    /\ Puts # {}
    /\ call.args.tool_instances = <<<<>>>>
    /\ Get(Existing, "commands", <<>>) # <<>>
    /\ PutPayload.commands = <<>>

\* test_mcp_protocol has sent its tools/call request
ToolCalled == Finished("test_mcp_protocol") /\ Len(wire) = 3

\* the tools that the tools/list response of the call announced
Discovered == Announced(call.script[2])

\* C26: with tools discovered, the tools/call request of test_mcp_protocol
\* names the first listed tool of the supplied name when a name was supplied
\* and a listed tool has it, and the first listed tool otherwise; its arguments
\* are empty.
C26_NamedToolOrFirst ==
    ToolCalled =>
        /\ Discovered # <<>>
        /\ wire[3].json[1].method = "tools/call"
        /\ wire[3].json[1].params.arguments = <<>>
        /\ wire[3].json[1].params.name =
               IF Truthy(call.args.tool_name)
                  /\ NamedAt(Discovered, call.args.tool_name) # {}
               THEN Discovered[CHOOSE i \in NamedAt(Discovered, call.args.tool_name) :
                                  \A j \in NamedAt(Discovered, call.args.tool_name) : i <= j].name
               ELSE Discovered[1].name

\* the named tool was called although another tool is listed first
C26_Witness ==
    /\ ToolCalled
    /\ Truthy(call.args.tool_name)
    /\ wire[3].json[1].params.name = call.args.tool_name
    /\ Discovered[1].name # call.args.tool_name

\* a lookup by a non-empty name has ended
LookedUp ==
    /\ pc = "done"
    /\ call.op \in {"get_trigger", "get_policy"}
    /\ Truthy(call.args.name)

\* C27: get_trigger and get_policy make their list request, and can raise
\* ResourceNotFoundError, only when the GET by name answered 404; every other
\* failure of that GET is raised to the caller with no list request made.
C27_FallbackOnlyOnNotFound ==
    LookedUp =>
        /\ Len(wire) >= 2 => IsStatus(call.script[1], 404)
        /\ RaisedType("ResourceNotFoundError") => IsStatus(call.script[1], 404)
        /\ (IsFailure(call.script[1]) /\ ~IsStatus(call.script[1], 404)) =>
               /\ Len(wire) = 1
               /\ result.raised
               /\ ~RaisedType("ResourceNotFoundError")

\* the tool list the workspace holds
ToolsHeld ==
    Get(Get(server.trigger[1], "mcpTriggerInfo", <<>>), "toolInstances", <<>>)

\* the call of caller c has returned
Succeeded(c) == callers[c].out # <<>> /\ ~callers[c].out[1].raised

\* the list held shows the change of caller c: the tool it added is there,
\* or no tool of the name it removed is
Reflected(c) ==
    IF callers[c].call.op = "add_tool_to_mcp_trigger"
    THEN \E i \in 1..Len(ToolsHeld) : ToolsHeld[i].instanceId = InstanceIdOf(c)
    ELSE ToolsNamed(ToolsHeld, callers[c].call.tool_name) = {}

\* the positions, among the requests served, of those of caller c and of its PUT
RequestsOf(c) == {i \in 1..Len(server.served) : server.served[i].caller = c}
PutsOf(c) == {i \in RequestsOf(c) : server.served[i].method = "PUT"}

\* another caller's PUT was served between the first read of caller c and
\* the PUT of caller c
Disturbed(c) ==
    \E i \in RequestsOf(c), j \in 1..Len(server.served), k \in PutsOf(c) :
        /\ i < j /\ j < k
        /\ server.served[j].caller # c
        /\ server.served[j].method = "PUT"

\* the caller whose PUT was served last
LastWriter == server.served[Len(server.served)].caller

\* C28 as stated: when both calls have reported success the list held shows
\* both changes, however their requests interleaved.
C28_NoLostUpdate ==
    (\A c \in CallerIds : Succeeded(c)) => \A c \in CallerIds : Reflected(c)

\* C28, amended: when both calls have reported success, the list held shows
\* the change of the call whose PUT was served last, and it shows both changes
\* when no PUT of the other call fell between a call's first read and its PUT.
C28_LastWriterWins ==
    (\A c \in CallerIds : Succeeded(c)) =>
        /\ server.served[Len(server.served)].method = "PUT"
        /\ Reflected(LastWriter)
        /\ (\A c \in CallerIds : ~Disturbed(c)) => \A c \in CallerIds : Reflected(c)

\* two interleaved calls both reported success and the tool one of them added
\* is not in the list held
C28_Witness ==
    /\ \A c \in CallerIds : Succeeded(c)
    /\ \A c \in CallerIds : callers[c].call.op = "add_tool_to_mcp_trigger"
    /\ \E c \in CallerIds : Disturbed(c)
    /\ \E c \in CallerIds : ~Reflected(c)

\* get_mcp_trigger_url has ended for a non-empty name
UrlAsked ==
    /\ pc = "done"
    /\ call.op = "get_mcp_trigger_url"
    /\ Truthy(call.args.name)

\* the lookup of the trigger of the call ended with ResourceNotFoundError
NotFound(g) == Raised(g) /\ g.out[1].exc.type = "ResourceNotFoundError"

\* C29: get_mcp_trigger_url(name) for a non-empty name never raises
\* ResourceNotFoundError or MCPError; it returns the triggerUrl of the trigger
\* exactly when the trigger is found, by the GET by name or in the list, and
\* has the kind "mcp"; it returns None when the trigger is not found or has
\* another kind; every request it issues is a GET.
C29_UrlOnlyOfFoundMcpTrigger ==
    UrlAsked =>
        LET g == FirstFetch(call.args.name)
        IN  /\ ~RaisedType("ResourceNotFoundError")
            /\ ~RaisedType("MCPError")
            /\ \A i \in 1..Len(wire) : wire[i].method = "GET"
            /\ IsMcp(g) => result = Return(Get(g.out[1].value[1], "triggerUrl", None))
            /\ (NotMcp(g) \/ NotFound(g)) => result = Return(None)
            /\ (~result.raised /\ result.value[1] # None) => IsMcp(g)
            /\ result.raised => ~Fetched(g) /\ ~NotFound(g)

\* the trigger was missing from the list of the fallback and None came back
C29_Witness ==
    /\ UrlAsked
    /\ Len(wire) = 2
    /\ NotFound(FirstFetch(call.args.name))
    /\ result = Return(None)

====
